---- MODULE Spec2Model ----
(***************************************************************************)
(* Model of comparede.py: the attendance comparator.  compare_files loads  *)
(* a roster and two biometric tables, normalises the employee ids, and     *)
(* assigns one Status to every roster row.                                 *)
(*                                                                         *)
(* A Python string is a sequence of one-character strings.  A spreadsheet  *)
(* cell is a record [k, v], k the kind of the value and v its text or its  *)
(* digits.  A datetime returned by strptime is the number of seconds since *)
(* midnight (the date part is always 1900-01-01).                          *)
(***************************************************************************)
EXTENDS Integers, Sequences, FiniteSets, TLC

VARIABLES
    pc,            \* position in compare_files, or "clean" in the clean_id runs
    att_in,        \* roster as read by read_excel (line 61)
    bio1_in,       \* Source 1 as read by read_excel (line 69)
    bio2_in,       \* Source 2 as read by read_excel (line 70)
    manual_df,     \* roster frame
    bio1,          \* Source 1 frame
    bio2,          \* Source 2 frame
    m_emp,         \* resolved roster id header (line 77)
    b_emp1,        \* resolved Source 1 id header (line 78)
    b_emp2,        \* resolved Source 2 id header (line 78)
    shift_col,     \* resolved shift header (line 109)
    all_bio1_ids,  \* set of the Source 1 id cells (line 110)
    statuses,      \* line 108
    idx,           \* number of roster rows already visited by the loop
    x_in,          \* argument of clean_id in the clean_id runs
    x_out          \* results of the successive clean_id applications

vars == <<pc, att_in, bio1_in, bio2_in, manual_df, bio1, bio2, m_emp, b_emp1,
          b_emp2, shift_col, all_bio1_ids, statuses, idx, x_in, x_out>>

(***************************************************************************)
(* Characters and strings.  A string is a sequence of characters.  A      *)
(* character up to U+00FF is written as itself, the grave accent and every *)
(* character above U+00FF by its code point, "U+0060", "U+0131",           *)
(* "U+1F600": at least four hexadecimal digits, in capitals.  The tables   *)
(* are those of Unicode 14.0.0.                                            *)
(***************************************************************************)
AsciiLower == <<"a","b","c","d","e","f","g","h","i","j","k","l","m",
                "n","o","p","q","r","s","t","u","v","w","x","y","z">>
AsciiUpper == <<"A","B","C","D","E","F","G","H","I","J","K","L","M",
                "N","O","P","Q","R","S","T","U","V","W","X","Y","Z">>
DigitChars == <<"0","1","2","3","4","5","6","7","8","9">>

\* the lower-case letters U+00E0..U+00FE (without the division sign)
Latin1Lower ==
    <<"à", "á", "â", "ã", "ä", "å", "æ", "ç", "è", "é", "ê", "ë", "ì", "í", "î",
      "ï", "ð", "ñ", "ò", "ó", "ô", "õ", "ö", "ø", "ù", "ú", "û", "ü", "ý", "þ">>

\* their capitals U+00C0..U+00DE (without the multiplication sign)
Latin1Upper ==
    <<"À", "Á", "Â", "Ã", "Ä", "Å", "Æ", "Ç", "È", "É", "Ê", "Ë", "Ì", "Í", "Î",
      "Ï", "Ð", "Ñ", "Ò", "Ó", "Ô", "Õ", "Ö", "Ø", "Ù", "Ú", "Û", "Ü", "Ý", "Þ">>

InSeq(c, s) == \E i \in 1..Len(s) : s[i] = c

PosIn(c, s) == CHOOSE i \in 1..Len(s) : s[i] = c

\* the other characters str.upper() changes: sharp s, micro, y-diaeresis
\* and the letters above U+00FF
UpperMoreSrc ==
    << "µ", "ß", "ÿ", "U+0101", "U+0103", "U+0105", "U+0107", "U+0109",
      "U+010B", "U+010D", "U+010F", "U+0111", "U+0113", "U+0115", "U+0117",
      "U+0119", "U+011B", "U+011D", "U+011F", "U+0121", "U+0123", "U+0125",
      "U+0127", "U+0129", "U+012B", "U+012D", "U+012F", "U+0131", "U+0133",
      "U+0135", "U+0137", "U+013A", "U+013C", "U+013E", "U+0140", "U+0142",
      "U+0144", "U+0146", "U+0148", "U+0149", "U+014B", "U+014D", "U+014F",
      "U+0151", "U+0153", "U+0155", "U+0157", "U+0159", "U+015B", "U+015D",
      "U+015F", "U+0161", "U+0163", "U+0165", "U+0167", "U+0169", "U+016B",
      "U+016D", "U+016F", "U+0171", "U+0173", "U+0175", "U+0177", "U+017A",
      "U+017C", "U+017E", "U+017F", "U+0180", "U+0183", "U+0185", "U+0188",
      "U+018C", "U+0192", "U+0195", "U+0199", "U+019A", "U+019E", "U+01A1",
      "U+01A3", "U+01A5", "U+01A8", "U+01AD", "U+01B0", "U+01B4", "U+01B6",
      "U+01B9", "U+01BD", "U+01BF", "U+01C5", "U+01C6", "U+01C8", "U+01C9",
      "U+01CB", "U+01CC", "U+01CE", "U+01D0", "U+01D2", "U+01D4", "U+01D6",
      "U+01D8", "U+01DA", "U+01DC", "U+01DD", "U+01DF", "U+01E1", "U+01E3",
      "U+01E5", "U+01E7", "U+01E9", "U+01EB", "U+01ED", "U+01EF", "U+01F0",
      "U+01F2", "U+01F3", "U+01F5", "U+01F9", "U+01FB", "U+01FD", "U+01FF",
      "U+0201", "U+0203", "U+0205", "U+0207", "U+0209", "U+020B", "U+020D",
      "U+020F", "U+0211", "U+0213", "U+0215", "U+0217", "U+0219", "U+021B",
      "U+021D", "U+021F", "U+0223", "U+0225", "U+0227", "U+0229", "U+022B",
      "U+022D", "U+022F", "U+0231", "U+0233", "U+023C", "U+023F", "U+0240",
      "U+0242", "U+0247", "U+0249", "U+024B", "U+024D", "U+024F", "U+0250",
      "U+0251", "U+0252", "U+0253", "U+0254", "U+0256", "U+0257", "U+0259",
      "U+025B", "U+025C", "U+0260", "U+0261", "U+0263", "U+0265", "U+0266",
      "U+0268", "U+0269", "U+026A", "U+026B", "U+026C", "U+026F", "U+0271",
      "U+0272", "U+0275", "U+027D", "U+0280", "U+0282", "U+0283", "U+0287",
      "U+0288", "U+0289", "U+028A", "U+028B", "U+028C", "U+0292", "U+029D",
      "U+029E", "U+0345", "U+0371", "U+0373", "U+0377", "U+037B", "U+037C",
      "U+037D", "U+0390", "U+03AC", "U+03AD", "U+03AE", "U+03AF", "U+03B0",
      "U+03B1", "U+03B2", "U+03B3", "U+03B4", "U+03B5", "U+03B6", "U+03B7",
      "U+03B8", "U+03B9", "U+03BA", "U+03BB", "U+03BC", "U+03BD", "U+03BE",
      "U+03BF", "U+03C0", "U+03C1", "U+03C2", "U+03C3", "U+03C4", "U+03C5",
      "U+03C6", "U+03C7", "U+03C8", "U+03C9", "U+03CA", "U+03CB", "U+03CC",
      "U+03CD", "U+03CE", "U+03D0", "U+03D1", "U+03D5", "U+03D6", "U+03D7",
      "U+03D9", "U+03DB", "U+03DD", "U+03DF", "U+03E1", "U+03E3", "U+03E5",
      "U+03E7", "U+03E9", "U+03EB", "U+03ED", "U+03EF", "U+03F0", "U+03F1",
      "U+03F2", "U+03F3", "U+03F5", "U+03F8", "U+03FB", "U+0430", "U+0431",
      "U+0432", "U+0433", "U+0434", "U+0435", "U+0436", "U+0437", "U+0438",
      "U+0439", "U+043A", "U+043B", "U+043C", "U+043D", "U+043E", "U+043F",
      "U+0440", "U+0441", "U+0442", "U+0443", "U+0444", "U+0445", "U+0446",
      "U+0447", "U+0448", "U+0449", "U+044A", "U+044B", "U+044C", "U+044D",
      "U+044E", "U+044F", "U+0450", "U+0451", "U+0452", "U+0453", "U+0454",
      "U+0455", "U+0456", "U+0457", "U+0458", "U+0459", "U+045A", "U+045B",
      "U+045C", "U+045D", "U+045E", "U+045F", "U+0461", "U+0463", "U+0465",
      "U+0467", "U+0469", "U+046B", "U+046D", "U+046F", "U+0471", "U+0473",
      "U+0475", "U+0477", "U+0479", "U+047B", "U+047D", "U+047F", "U+0481",
      "U+048B", "U+048D", "U+048F", "U+0491", "U+0493", "U+0495", "U+0497",
      "U+0499", "U+049B", "U+049D", "U+049F", "U+04A1", "U+04A3", "U+04A5",
      "U+04A7", "U+04A9", "U+04AB", "U+04AD", "U+04AF", "U+04B1", "U+04B3",
      "U+04B5", "U+04B7", "U+04B9", "U+04BB", "U+04BD", "U+04BF", "U+04C2",
      "U+04C4", "U+04C6", "U+04C8", "U+04CA", "U+04CC", "U+04CE", "U+04CF",
      "U+04D1", "U+04D3", "U+04D5", "U+04D7", "U+04D9", "U+04DB", "U+04DD",
      "U+04DF", "U+04E1", "U+04E3", "U+04E5", "U+04E7", "U+04E9", "U+04EB",
      "U+04ED", "U+04EF", "U+04F1", "U+04F3", "U+04F5", "U+04F7", "U+04F9",
      "U+04FB", "U+04FD", "U+04FF", "U+0501", "U+0503", "U+0505", "U+0507",
      "U+0509", "U+050B", "U+050D", "U+050F", "U+0511", "U+0513", "U+0515",
      "U+0517", "U+0519", "U+051B", "U+051D", "U+051F", "U+0521", "U+0523",
      "U+0525", "U+0527", "U+0529", "U+052B", "U+052D", "U+052F", "U+0561",
      "U+0562", "U+0563", "U+0564", "U+0565", "U+0566", "U+0567", "U+0568",
      "U+0569", "U+056A", "U+056B", "U+056C", "U+056D", "U+056E", "U+056F",
      "U+0570", "U+0571", "U+0572", "U+0573", "U+0574", "U+0575", "U+0576",
      "U+0577", "U+0578", "U+0579", "U+057A", "U+057B", "U+057C", "U+057D",
      "U+057E", "U+057F", "U+0580", "U+0581", "U+0582", "U+0583", "U+0584",
      "U+0585", "U+0586", "U+0587", "U+10D0", "U+10D1", "U+10D2", "U+10D3",
      "U+10D4", "U+10D5", "U+10D6", "U+10D7", "U+10D8", "U+10D9", "U+10DA",
      "U+10DB", "U+10DC", "U+10DD", "U+10DE", "U+10DF", "U+10E0", "U+10E1",
      "U+10E2", "U+10E3", "U+10E4", "U+10E5", "U+10E6", "U+10E7", "U+10E8",
      "U+10E9", "U+10EA", "U+10EB", "U+10EC", "U+10ED", "U+10EE", "U+10EF",
      "U+10F0", "U+10F1", "U+10F2", "U+10F3", "U+10F4", "U+10F5", "U+10F6",
      "U+10F7", "U+10F8", "U+10F9", "U+10FA", "U+10FD", "U+10FE", "U+10FF",
      "U+13F8", "U+13F9", "U+13FA", "U+13FB", "U+13FC", "U+13FD", "U+1C80",
      "U+1C81", "U+1C82", "U+1C83", "U+1C84", "U+1C85", "U+1C86", "U+1C87",
      "U+1C88", "U+1D79", "U+1D7D", "U+1D8E", "U+1E01", "U+1E03", "U+1E05",
      "U+1E07", "U+1E09", "U+1E0B", "U+1E0D", "U+1E0F", "U+1E11", "U+1E13",
      "U+1E15", "U+1E17", "U+1E19", "U+1E1B", "U+1E1D", "U+1E1F", "U+1E21",
      "U+1E23", "U+1E25", "U+1E27", "U+1E29", "U+1E2B", "U+1E2D", "U+1E2F",
      "U+1E31", "U+1E33", "U+1E35", "U+1E37", "U+1E39", "U+1E3B", "U+1E3D",
      "U+1E3F", "U+1E41", "U+1E43", "U+1E45", "U+1E47", "U+1E49", "U+1E4B",
      "U+1E4D", "U+1E4F", "U+1E51", "U+1E53", "U+1E55", "U+1E57", "U+1E59",
      "U+1E5B", "U+1E5D", "U+1E5F", "U+1E61", "U+1E63", "U+1E65", "U+1E67",
      "U+1E69", "U+1E6B", "U+1E6D", "U+1E6F", "U+1E71", "U+1E73", "U+1E75",
      "U+1E77", "U+1E79", "U+1E7B", "U+1E7D", "U+1E7F", "U+1E81", "U+1E83",
      "U+1E85", "U+1E87", "U+1E89", "U+1E8B", "U+1E8D", "U+1E8F", "U+1E91",
      "U+1E93", "U+1E95", "U+1E96", "U+1E97", "U+1E98", "U+1E99", "U+1E9A",
      "U+1E9B", "U+1EA1", "U+1EA3", "U+1EA5", "U+1EA7", "U+1EA9", "U+1EAB",
      "U+1EAD", "U+1EAF", "U+1EB1", "U+1EB3", "U+1EB5", "U+1EB7", "U+1EB9",
      "U+1EBB", "U+1EBD", "U+1EBF", "U+1EC1", "U+1EC3", "U+1EC5", "U+1EC7",
      "U+1EC9", "U+1ECB", "U+1ECD", "U+1ECF", "U+1ED1", "U+1ED3", "U+1ED5",
      "U+1ED7", "U+1ED9", "U+1EDB", "U+1EDD", "U+1EDF", "U+1EE1", "U+1EE3",
      "U+1EE5", "U+1EE7", "U+1EE9", "U+1EEB", "U+1EED", "U+1EEF", "U+1EF1",
      "U+1EF3", "U+1EF5", "U+1EF7", "U+1EF9", "U+1EFB", "U+1EFD", "U+1EFF",
      "U+1F00", "U+1F01", "U+1F02", "U+1F03", "U+1F04", "U+1F05", "U+1F06",
      "U+1F07", "U+1F10", "U+1F11", "U+1F12", "U+1F13", "U+1F14", "U+1F15",
      "U+1F20", "U+1F21", "U+1F22", "U+1F23", "U+1F24", "U+1F25", "U+1F26",
      "U+1F27", "U+1F30", "U+1F31", "U+1F32", "U+1F33", "U+1F34", "U+1F35",
      "U+1F36", "U+1F37", "U+1F40", "U+1F41", "U+1F42", "U+1F43", "U+1F44",
      "U+1F45", "U+1F50", "U+1F51", "U+1F52", "U+1F53", "U+1F54", "U+1F55",
      "U+1F56", "U+1F57", "U+1F60", "U+1F61", "U+1F62", "U+1F63", "U+1F64",
      "U+1F65", "U+1F66", "U+1F67", "U+1F70", "U+1F71", "U+1F72", "U+1F73",
      "U+1F74", "U+1F75", "U+1F76", "U+1F77", "U+1F78", "U+1F79", "U+1F7A",
      "U+1F7B", "U+1F7C", "U+1F7D", "U+1F80", "U+1F81", "U+1F82", "U+1F83",
      "U+1F84", "U+1F85", "U+1F86", "U+1F87", "U+1F88", "U+1F89", "U+1F8A",
      "U+1F8B", "U+1F8C", "U+1F8D", "U+1F8E", "U+1F8F", "U+1F90", "U+1F91",
      "U+1F92", "U+1F93", "U+1F94", "U+1F95", "U+1F96", "U+1F97", "U+1F98",
      "U+1F99", "U+1F9A", "U+1F9B", "U+1F9C", "U+1F9D", "U+1F9E", "U+1F9F",
      "U+1FA0", "U+1FA1", "U+1FA2", "U+1FA3", "U+1FA4", "U+1FA5", "U+1FA6",
      "U+1FA7", "U+1FA8", "U+1FA9", "U+1FAA", "U+1FAB", "U+1FAC", "U+1FAD",
      "U+1FAE", "U+1FAF", "U+1FB0", "U+1FB1", "U+1FB2", "U+1FB3", "U+1FB4",
      "U+1FB6", "U+1FB7", "U+1FBC", "U+1FBE", "U+1FC2", "U+1FC3", "U+1FC4",
      "U+1FC6", "U+1FC7", "U+1FCC", "U+1FD0", "U+1FD1", "U+1FD2", "U+1FD3",
      "U+1FD6", "U+1FD7", "U+1FE0", "U+1FE1", "U+1FE2", "U+1FE3", "U+1FE4",
      "U+1FE5", "U+1FE6", "U+1FE7", "U+1FF2", "U+1FF3", "U+1FF4", "U+1FF6",
      "U+1FF7", "U+1FFC", "U+214E", "U+2170", "U+2171", "U+2172", "U+2173",
      "U+2174", "U+2175", "U+2176", "U+2177", "U+2178", "U+2179", "U+217A",
      "U+217B", "U+217C", "U+217D", "U+217E", "U+217F", "U+2184", "U+24D0",
      "U+24D1", "U+24D2", "U+24D3", "U+24D4", "U+24D5", "U+24D6", "U+24D7",
      "U+24D8", "U+24D9", "U+24DA", "U+24DB", "U+24DC", "U+24DD", "U+24DE",
      "U+24DF", "U+24E0", "U+24E1", "U+24E2", "U+24E3", "U+24E4", "U+24E5",
      "U+24E6", "U+24E7", "U+24E8", "U+24E9", "U+2C30", "U+2C31", "U+2C32",
      "U+2C33", "U+2C34", "U+2C35", "U+2C36", "U+2C37", "U+2C38", "U+2C39",
      "U+2C3A", "U+2C3B", "U+2C3C", "U+2C3D", "U+2C3E", "U+2C3F", "U+2C40",
      "U+2C41", "U+2C42", "U+2C43", "U+2C44", "U+2C45", "U+2C46", "U+2C47",
      "U+2C48", "U+2C49", "U+2C4A", "U+2C4B", "U+2C4C", "U+2C4D", "U+2C4E",
      "U+2C4F", "U+2C50", "U+2C51", "U+2C52", "U+2C53", "U+2C54", "U+2C55",
      "U+2C56", "U+2C57", "U+2C58", "U+2C59", "U+2C5A", "U+2C5B", "U+2C5C",
      "U+2C5D", "U+2C5E", "U+2C5F", "U+2C61", "U+2C65", "U+2C66", "U+2C68",
      "U+2C6A", "U+2C6C", "U+2C73", "U+2C76", "U+2C81", "U+2C83", "U+2C85",
      "U+2C87", "U+2C89", "U+2C8B", "U+2C8D", "U+2C8F", "U+2C91", "U+2C93",
      "U+2C95", "U+2C97", "U+2C99", "U+2C9B", "U+2C9D", "U+2C9F", "U+2CA1",
      "U+2CA3", "U+2CA5", "U+2CA7", "U+2CA9", "U+2CAB", "U+2CAD", "U+2CAF",
      "U+2CB1", "U+2CB3", "U+2CB5", "U+2CB7", "U+2CB9", "U+2CBB", "U+2CBD",
      "U+2CBF", "U+2CC1", "U+2CC3", "U+2CC5", "U+2CC7", "U+2CC9", "U+2CCB",
      "U+2CCD", "U+2CCF", "U+2CD1", "U+2CD3", "U+2CD5", "U+2CD7", "U+2CD9",
      "U+2CDB", "U+2CDD", "U+2CDF", "U+2CE1", "U+2CE3", "U+2CEC", "U+2CEE",
      "U+2CF3", "U+2D00", "U+2D01", "U+2D02", "U+2D03", "U+2D04", "U+2D05",
      "U+2D06", "U+2D07", "U+2D08", "U+2D09", "U+2D0A", "U+2D0B", "U+2D0C",
      "U+2D0D", "U+2D0E", "U+2D0F", "U+2D10", "U+2D11", "U+2D12", "U+2D13",
      "U+2D14", "U+2D15", "U+2D16", "U+2D17", "U+2D18", "U+2D19", "U+2D1A",
      "U+2D1B", "U+2D1C", "U+2D1D", "U+2D1E", "U+2D1F", "U+2D20", "U+2D21",
      "U+2D22", "U+2D23", "U+2D24", "U+2D25", "U+2D27", "U+2D2D", "U+A641",
      "U+A643", "U+A645", "U+A647", "U+A649", "U+A64B", "U+A64D", "U+A64F",
      "U+A651", "U+A653", "U+A655", "U+A657", "U+A659", "U+A65B", "U+A65D",
      "U+A65F", "U+A661", "U+A663", "U+A665", "U+A667", "U+A669", "U+A66B",
      "U+A66D", "U+A681", "U+A683", "U+A685", "U+A687", "U+A689", "U+A68B",
      "U+A68D", "U+A68F", "U+A691", "U+A693", "U+A695", "U+A697", "U+A699",
      "U+A69B", "U+A723", "U+A725", "U+A727", "U+A729", "U+A72B", "U+A72D",
      "U+A72F", "U+A733", "U+A735", "U+A737", "U+A739", "U+A73B", "U+A73D",
      "U+A73F", "U+A741", "U+A743", "U+A745", "U+A747", "U+A749", "U+A74B",
      "U+A74D", "U+A74F", "U+A751", "U+A753", "U+A755", "U+A757", "U+A759",
      "U+A75B", "U+A75D", "U+A75F", "U+A761", "U+A763", "U+A765", "U+A767",
      "U+A769", "U+A76B", "U+A76D", "U+A76F", "U+A77A", "U+A77C", "U+A77F",
      "U+A781", "U+A783", "U+A785", "U+A787", "U+A78C", "U+A791", "U+A793",
      "U+A794", "U+A797", "U+A799", "U+A79B", "U+A79D", "U+A79F", "U+A7A1",
      "U+A7A3", "U+A7A5", "U+A7A7", "U+A7A9", "U+A7B5", "U+A7B7", "U+A7B9",
      "U+A7BB", "U+A7BD", "U+A7BF", "U+A7C1", "U+A7C3", "U+A7C8", "U+A7CA",
      "U+A7D1", "U+A7D7", "U+A7D9", "U+A7F6", "U+AB53", "U+AB70", "U+AB71",
      "U+AB72", "U+AB73", "U+AB74", "U+AB75", "U+AB76", "U+AB77", "U+AB78",
      "U+AB79", "U+AB7A", "U+AB7B", "U+AB7C", "U+AB7D", "U+AB7E", "U+AB7F",
      "U+AB80", "U+AB81", "U+AB82", "U+AB83", "U+AB84", "U+AB85", "U+AB86",
      "U+AB87", "U+AB88", "U+AB89", "U+AB8A", "U+AB8B", "U+AB8C", "U+AB8D",
      "U+AB8E", "U+AB8F", "U+AB90", "U+AB91", "U+AB92", "U+AB93", "U+AB94",
      "U+AB95", "U+AB96", "U+AB97", "U+AB98", "U+AB99", "U+AB9A", "U+AB9B",
      "U+AB9C", "U+AB9D", "U+AB9E", "U+AB9F", "U+ABA0", "U+ABA1", "U+ABA2",
      "U+ABA3", "U+ABA4", "U+ABA5", "U+ABA6", "U+ABA7", "U+ABA8", "U+ABA9",
      "U+ABAA", "U+ABAB", "U+ABAC", "U+ABAD", "U+ABAE", "U+ABAF", "U+ABB0",
      "U+ABB1", "U+ABB2", "U+ABB3", "U+ABB4", "U+ABB5", "U+ABB6", "U+ABB7",
      "U+ABB8", "U+ABB9", "U+ABBA", "U+ABBB", "U+ABBC", "U+ABBD", "U+ABBE",
      "U+ABBF", "U+FB00", "U+FB01", "U+FB02", "U+FB03", "U+FB04", "U+FB05",
      "U+FB06", "U+FB13", "U+FB14", "U+FB15", "U+FB16", "U+FB17", "U+FF41",
      "U+FF42", "U+FF43", "U+FF44", "U+FF45", "U+FF46", "U+FF47", "U+FF48",
      "U+FF49", "U+FF4A", "U+FF4B", "U+FF4C", "U+FF4D", "U+FF4E", "U+FF4F",
      "U+FF50", "U+FF51", "U+FF52", "U+FF53", "U+FF54", "U+FF55", "U+FF56",
      "U+FF57", "U+FF58", "U+FF59", "U+FF5A", "U+10428", "U+10429",
      "U+1042A", "U+1042B", "U+1042C", "U+1042D", "U+1042E", "U+1042F",
      "U+10430", "U+10431", "U+10432", "U+10433", "U+10434", "U+10435",
      "U+10436", "U+10437", "U+10438", "U+10439", "U+1043A", "U+1043B",
      "U+1043C", "U+1043D", "U+1043E", "U+1043F", "U+10440", "U+10441",
      "U+10442", "U+10443", "U+10444", "U+10445", "U+10446", "U+10447",
      "U+10448", "U+10449", "U+1044A", "U+1044B", "U+1044C", "U+1044D",
      "U+1044E", "U+1044F", "U+104D8", "U+104D9", "U+104DA", "U+104DB",
      "U+104DC", "U+104DD", "U+104DE", "U+104DF", "U+104E0", "U+104E1",
      "U+104E2", "U+104E3", "U+104E4", "U+104E5", "U+104E6", "U+104E7",
      "U+104E8", "U+104E9", "U+104EA", "U+104EB", "U+104EC", "U+104ED",
      "U+104EE", "U+104EF", "U+104F0", "U+104F1", "U+104F2", "U+104F3",
      "U+104F4", "U+104F5", "U+104F6", "U+104F7", "U+104F8", "U+104F9",
      "U+104FA", "U+104FB", "U+10597", "U+10598", "U+10599", "U+1059A",
      "U+1059B", "U+1059C", "U+1059D", "U+1059E", "U+1059F", "U+105A0",
      "U+105A1", "U+105A3", "U+105A4", "U+105A5", "U+105A6", "U+105A7",
      "U+105A8", "U+105A9", "U+105AA", "U+105AB", "U+105AC", "U+105AD",
      "U+105AE", "U+105AF", "U+105B0", "U+105B1", "U+105B3", "U+105B4",
      "U+105B5", "U+105B6", "U+105B7", "U+105B8", "U+105B9", "U+105BB",
      "U+105BC", "U+10CC0", "U+10CC1", "U+10CC2", "U+10CC3", "U+10CC4",
      "U+10CC5", "U+10CC6", "U+10CC7", "U+10CC8", "U+10CC9", "U+10CCA",
      "U+10CCB", "U+10CCC", "U+10CCD", "U+10CCE", "U+10CCF", "U+10CD0",
      "U+10CD1", "U+10CD2", "U+10CD3", "U+10CD4", "U+10CD5", "U+10CD6",
      "U+10CD7", "U+10CD8", "U+10CD9", "U+10CDA", "U+10CDB", "U+10CDC",
      "U+10CDD", "U+10CDE", "U+10CDF", "U+10CE0", "U+10CE1", "U+10CE2",
      "U+10CE3", "U+10CE4", "U+10CE5", "U+10CE6", "U+10CE7", "U+10CE8",
      "U+10CE9", "U+10CEA", "U+10CEB", "U+10CEC", "U+10CED", "U+10CEE",
      "U+10CEF", "U+10CF0", "U+10CF1", "U+10CF2", "U+118C0", "U+118C1",
      "U+118C2", "U+118C3", "U+118C4", "U+118C5", "U+118C6", "U+118C7",
      "U+118C8", "U+118C9", "U+118CA", "U+118CB", "U+118CC", "U+118CD",
      "U+118CE", "U+118CF", "U+118D0", "U+118D1", "U+118D2", "U+118D3",
      "U+118D4", "U+118D5", "U+118D6", "U+118D7", "U+118D8", "U+118D9",
      "U+118DA", "U+118DB", "U+118DC", "U+118DD", "U+118DE", "U+118DF",
      "U+16E60", "U+16E61", "U+16E62", "U+16E63", "U+16E64", "U+16E65",
      "U+16E66", "U+16E67", "U+16E68", "U+16E69", "U+16E6A", "U+16E6B",
      "U+16E6C", "U+16E6D", "U+16E6E", "U+16E6F", "U+16E70", "U+16E71",
      "U+16E72", "U+16E73", "U+16E74", "U+16E75", "U+16E76", "U+16E77",
      "U+16E78", "U+16E79", "U+16E7A", "U+16E7B", "U+16E7C", "U+16E7D",
      "U+16E7E", "U+16E7F", "U+1E922", "U+1E923", "U+1E924", "U+1E925",
      "U+1E926", "U+1E927", "U+1E928", "U+1E929", "U+1E92A", "U+1E92B",
      "U+1E92C", "U+1E92D", "U+1E92E", "U+1E92F", "U+1E930", "U+1E931",
      "U+1E932", "U+1E933", "U+1E934", "U+1E935", "U+1E936", "U+1E937",
      "U+1E938", "U+1E939", "U+1E93A", "U+1E93B", "U+1E93C", "U+1E93D",
      "U+1E93E", "U+1E93F", "U+1E940", "U+1E941", "U+1E942", "U+1E943" >>

\* what str.upper() makes of each of them: one, two or three characters
UpperMoreDst ==
    << <<"U+039C">>, <<"S", "S">>, <<"U+0178">>, <<"U+0100">>, <<"U+0102">>,
      <<"U+0104">>, <<"U+0106">>, <<"U+0108">>, <<"U+010A">>, <<"U+010C">>,
      <<"U+010E">>, <<"U+0110">>, <<"U+0112">>, <<"U+0114">>, <<"U+0116">>,
      <<"U+0118">>, <<"U+011A">>, <<"U+011C">>, <<"U+011E">>, <<"U+0120">>,
      <<"U+0122">>, <<"U+0124">>, <<"U+0126">>, <<"U+0128">>, <<"U+012A">>,
      <<"U+012C">>, <<"U+012E">>, <<"I">>, <<"U+0132">>, <<"U+0134">>,
      <<"U+0136">>, <<"U+0139">>, <<"U+013B">>, <<"U+013D">>, <<"U+013F">>,
      <<"U+0141">>, <<"U+0143">>, <<"U+0145">>, <<"U+0147">>,
      <<"U+02BC", "N">>, <<"U+014A">>, <<"U+014C">>, <<"U+014E">>,
      <<"U+0150">>, <<"U+0152">>, <<"U+0154">>, <<"U+0156">>, <<"U+0158">>,
      <<"U+015A">>, <<"U+015C">>, <<"U+015E">>, <<"U+0160">>, <<"U+0162">>,
      <<"U+0164">>, <<"U+0166">>, <<"U+0168">>, <<"U+016A">>, <<"U+016C">>,
      <<"U+016E">>, <<"U+0170">>, <<"U+0172">>, <<"U+0174">>, <<"U+0176">>,
      <<"U+0179">>, <<"U+017B">>, <<"U+017D">>, <<"S">>, <<"U+0243">>,
      <<"U+0182">>, <<"U+0184">>, <<"U+0187">>, <<"U+018B">>, <<"U+0191">>,
      <<"U+01F6">>, <<"U+0198">>, <<"U+023D">>, <<"U+0220">>, <<"U+01A0">>,
      <<"U+01A2">>, <<"U+01A4">>, <<"U+01A7">>, <<"U+01AC">>, <<"U+01AF">>,
      <<"U+01B3">>, <<"U+01B5">>, <<"U+01B8">>, <<"U+01BC">>, <<"U+01F7">>,
      <<"U+01C4">>, <<"U+01C4">>, <<"U+01C7">>, <<"U+01C7">>, <<"U+01CA">>,
      <<"U+01CA">>, <<"U+01CD">>, <<"U+01CF">>, <<"U+01D1">>, <<"U+01D3">>,
      <<"U+01D5">>, <<"U+01D7">>, <<"U+01D9">>, <<"U+01DB">>, <<"U+018E">>,
      <<"U+01DE">>, <<"U+01E0">>, <<"U+01E2">>, <<"U+01E4">>, <<"U+01E6">>,
      <<"U+01E8">>, <<"U+01EA">>, <<"U+01EC">>, <<"U+01EE">>,
      <<"J", "U+030C">>, <<"U+01F1">>, <<"U+01F1">>, <<"U+01F4">>,
      <<"U+01F8">>, <<"U+01FA">>, <<"U+01FC">>, <<"U+01FE">>, <<"U+0200">>,
      <<"U+0202">>, <<"U+0204">>, <<"U+0206">>, <<"U+0208">>, <<"U+020A">>,
      <<"U+020C">>, <<"U+020E">>, <<"U+0210">>, <<"U+0212">>, <<"U+0214">>,
      <<"U+0216">>, <<"U+0218">>, <<"U+021A">>, <<"U+021C">>, <<"U+021E">>,
      <<"U+0222">>, <<"U+0224">>, <<"U+0226">>, <<"U+0228">>, <<"U+022A">>,
      <<"U+022C">>, <<"U+022E">>, <<"U+0230">>, <<"U+0232">>, <<"U+023B">>,
      <<"U+2C7E">>, <<"U+2C7F">>, <<"U+0241">>, <<"U+0246">>, <<"U+0248">>,
      <<"U+024A">>, <<"U+024C">>, <<"U+024E">>, <<"U+2C6F">>, <<"U+2C6D">>,
      <<"U+2C70">>, <<"U+0181">>, <<"U+0186">>, <<"U+0189">>, <<"U+018A">>,
      <<"U+018F">>, <<"U+0190">>, <<"U+A7AB">>, <<"U+0193">>, <<"U+A7AC">>,
      <<"U+0194">>, <<"U+A78D">>, <<"U+A7AA">>, <<"U+0197">>, <<"U+0196">>,
      <<"U+A7AE">>, <<"U+2C62">>, <<"U+A7AD">>, <<"U+019C">>, <<"U+2C6E">>,
      <<"U+019D">>, <<"U+019F">>, <<"U+2C64">>, <<"U+01A6">>, <<"U+A7C5">>,
      <<"U+01A9">>, <<"U+A7B1">>, <<"U+01AE">>, <<"U+0244">>, <<"U+01B1">>,
      <<"U+01B2">>, <<"U+0245">>, <<"U+01B7">>, <<"U+A7B2">>, <<"U+A7B0">>,
      <<"U+0399">>, <<"U+0370">>, <<"U+0372">>, <<"U+0376">>, <<"U+03FD">>,
      <<"U+03FE">>, <<"U+03FF">>, <<"U+0399", "U+0308", "U+0301">>,
      <<"U+0386">>, <<"U+0388">>, <<"U+0389">>, <<"U+038A">>,
      <<"U+03A5", "U+0308", "U+0301">>, <<"U+0391">>, <<"U+0392">>,
      <<"U+0393">>, <<"U+0394">>, <<"U+0395">>, <<"U+0396">>, <<"U+0397">>,
      <<"U+0398">>, <<"U+0399">>, <<"U+039A">>, <<"U+039B">>, <<"U+039C">>,
      <<"U+039D">>, <<"U+039E">>, <<"U+039F">>, <<"U+03A0">>, <<"U+03A1">>,
      <<"U+03A3">>, <<"U+03A3">>, <<"U+03A4">>, <<"U+03A5">>, <<"U+03A6">>,
      <<"U+03A7">>, <<"U+03A8">>, <<"U+03A9">>, <<"U+03AA">>, <<"U+03AB">>,
      <<"U+038C">>, <<"U+038E">>, <<"U+038F">>, <<"U+0392">>, <<"U+0398">>,
      <<"U+03A6">>, <<"U+03A0">>, <<"U+03CF">>, <<"U+03D8">>, <<"U+03DA">>,
      <<"U+03DC">>, <<"U+03DE">>, <<"U+03E0">>, <<"U+03E2">>, <<"U+03E4">>,
      <<"U+03E6">>, <<"U+03E8">>, <<"U+03EA">>, <<"U+03EC">>, <<"U+03EE">>,
      <<"U+039A">>, <<"U+03A1">>, <<"U+03F9">>, <<"U+037F">>, <<"U+0395">>,
      <<"U+03F7">>, <<"U+03FA">>, <<"U+0410">>, <<"U+0411">>, <<"U+0412">>,
      <<"U+0413">>, <<"U+0414">>, <<"U+0415">>, <<"U+0416">>, <<"U+0417">>,
      <<"U+0418">>, <<"U+0419">>, <<"U+041A">>, <<"U+041B">>, <<"U+041C">>,
      <<"U+041D">>, <<"U+041E">>, <<"U+041F">>, <<"U+0420">>, <<"U+0421">>,
      <<"U+0422">>, <<"U+0423">>, <<"U+0424">>, <<"U+0425">>, <<"U+0426">>,
      <<"U+0427">>, <<"U+0428">>, <<"U+0429">>, <<"U+042A">>, <<"U+042B">>,
      <<"U+042C">>, <<"U+042D">>, <<"U+042E">>, <<"U+042F">>, <<"U+0400">>,
      <<"U+0401">>, <<"U+0402">>, <<"U+0403">>, <<"U+0404">>, <<"U+0405">>,
      <<"U+0406">>, <<"U+0407">>, <<"U+0408">>, <<"U+0409">>, <<"U+040A">>,
      <<"U+040B">>, <<"U+040C">>, <<"U+040D">>, <<"U+040E">>, <<"U+040F">>,
      <<"U+0460">>, <<"U+0462">>, <<"U+0464">>, <<"U+0466">>, <<"U+0468">>,
      <<"U+046A">>, <<"U+046C">>, <<"U+046E">>, <<"U+0470">>, <<"U+0472">>,
      <<"U+0474">>, <<"U+0476">>, <<"U+0478">>, <<"U+047A">>, <<"U+047C">>,
      <<"U+047E">>, <<"U+0480">>, <<"U+048A">>, <<"U+048C">>, <<"U+048E">>,
      <<"U+0490">>, <<"U+0492">>, <<"U+0494">>, <<"U+0496">>, <<"U+0498">>,
      <<"U+049A">>, <<"U+049C">>, <<"U+049E">>, <<"U+04A0">>, <<"U+04A2">>,
      <<"U+04A4">>, <<"U+04A6">>, <<"U+04A8">>, <<"U+04AA">>, <<"U+04AC">>,
      <<"U+04AE">>, <<"U+04B0">>, <<"U+04B2">>, <<"U+04B4">>, <<"U+04B6">>,
      <<"U+04B8">>, <<"U+04BA">>, <<"U+04BC">>, <<"U+04BE">>, <<"U+04C1">>,
      <<"U+04C3">>, <<"U+04C5">>, <<"U+04C7">>, <<"U+04C9">>, <<"U+04CB">>,
      <<"U+04CD">>, <<"U+04C0">>, <<"U+04D0">>, <<"U+04D2">>, <<"U+04D4">>,
      <<"U+04D6">>, <<"U+04D8">>, <<"U+04DA">>, <<"U+04DC">>, <<"U+04DE">>,
      <<"U+04E0">>, <<"U+04E2">>, <<"U+04E4">>, <<"U+04E6">>, <<"U+04E8">>,
      <<"U+04EA">>, <<"U+04EC">>, <<"U+04EE">>, <<"U+04F0">>, <<"U+04F2">>,
      <<"U+04F4">>, <<"U+04F6">>, <<"U+04F8">>, <<"U+04FA">>, <<"U+04FC">>,
      <<"U+04FE">>, <<"U+0500">>, <<"U+0502">>, <<"U+0504">>, <<"U+0506">>,
      <<"U+0508">>, <<"U+050A">>, <<"U+050C">>, <<"U+050E">>, <<"U+0510">>,
      <<"U+0512">>, <<"U+0514">>, <<"U+0516">>, <<"U+0518">>, <<"U+051A">>,
      <<"U+051C">>, <<"U+051E">>, <<"U+0520">>, <<"U+0522">>, <<"U+0524">>,
      <<"U+0526">>, <<"U+0528">>, <<"U+052A">>, <<"U+052C">>, <<"U+052E">>,
      <<"U+0531">>, <<"U+0532">>, <<"U+0533">>, <<"U+0534">>, <<"U+0535">>,
      <<"U+0536">>, <<"U+0537">>, <<"U+0538">>, <<"U+0539">>, <<"U+053A">>,
      <<"U+053B">>, <<"U+053C">>, <<"U+053D">>, <<"U+053E">>, <<"U+053F">>,
      <<"U+0540">>, <<"U+0541">>, <<"U+0542">>, <<"U+0543">>, <<"U+0544">>,
      <<"U+0545">>, <<"U+0546">>, <<"U+0547">>, <<"U+0548">>, <<"U+0549">>,
      <<"U+054A">>, <<"U+054B">>, <<"U+054C">>, <<"U+054D">>, <<"U+054E">>,
      <<"U+054F">>, <<"U+0550">>, <<"U+0551">>, <<"U+0552">>, <<"U+0553">>,
      <<"U+0554">>, <<"U+0555">>, <<"U+0556">>, <<"U+0535", "U+0552">>,
      <<"U+1C90">>, <<"U+1C91">>, <<"U+1C92">>, <<"U+1C93">>, <<"U+1C94">>,
      <<"U+1C95">>, <<"U+1C96">>, <<"U+1C97">>, <<"U+1C98">>, <<"U+1C99">>,
      <<"U+1C9A">>, <<"U+1C9B">>, <<"U+1C9C">>, <<"U+1C9D">>, <<"U+1C9E">>,
      <<"U+1C9F">>, <<"U+1CA0">>, <<"U+1CA1">>, <<"U+1CA2">>, <<"U+1CA3">>,
      <<"U+1CA4">>, <<"U+1CA5">>, <<"U+1CA6">>, <<"U+1CA7">>, <<"U+1CA8">>,
      <<"U+1CA9">>, <<"U+1CAA">>, <<"U+1CAB">>, <<"U+1CAC">>, <<"U+1CAD">>,
      <<"U+1CAE">>, <<"U+1CAF">>, <<"U+1CB0">>, <<"U+1CB1">>, <<"U+1CB2">>,
      <<"U+1CB3">>, <<"U+1CB4">>, <<"U+1CB5">>, <<"U+1CB6">>, <<"U+1CB7">>,
      <<"U+1CB8">>, <<"U+1CB9">>, <<"U+1CBA">>, <<"U+1CBD">>, <<"U+1CBE">>,
      <<"U+1CBF">>, <<"U+13F0">>, <<"U+13F1">>, <<"U+13F2">>, <<"U+13F3">>,
      <<"U+13F4">>, <<"U+13F5">>, <<"U+0412">>, <<"U+0414">>, <<"U+041E">>,
      <<"U+0421">>, <<"U+0422">>, <<"U+0422">>, <<"U+042A">>, <<"U+0462">>,
      <<"U+A64A">>, <<"U+A77D">>, <<"U+2C63">>, <<"U+A7C6">>, <<"U+1E00">>,
      <<"U+1E02">>, <<"U+1E04">>, <<"U+1E06">>, <<"U+1E08">>, <<"U+1E0A">>,
      <<"U+1E0C">>, <<"U+1E0E">>, <<"U+1E10">>, <<"U+1E12">>, <<"U+1E14">>,
      <<"U+1E16">>, <<"U+1E18">>, <<"U+1E1A">>, <<"U+1E1C">>, <<"U+1E1E">>,
      <<"U+1E20">>, <<"U+1E22">>, <<"U+1E24">>, <<"U+1E26">>, <<"U+1E28">>,
      <<"U+1E2A">>, <<"U+1E2C">>, <<"U+1E2E">>, <<"U+1E30">>, <<"U+1E32">>,
      <<"U+1E34">>, <<"U+1E36">>, <<"U+1E38">>, <<"U+1E3A">>, <<"U+1E3C">>,
      <<"U+1E3E">>, <<"U+1E40">>, <<"U+1E42">>, <<"U+1E44">>, <<"U+1E46">>,
      <<"U+1E48">>, <<"U+1E4A">>, <<"U+1E4C">>, <<"U+1E4E">>, <<"U+1E50">>,
      <<"U+1E52">>, <<"U+1E54">>, <<"U+1E56">>, <<"U+1E58">>, <<"U+1E5A">>,
      <<"U+1E5C">>, <<"U+1E5E">>, <<"U+1E60">>, <<"U+1E62">>, <<"U+1E64">>,
      <<"U+1E66">>, <<"U+1E68">>, <<"U+1E6A">>, <<"U+1E6C">>, <<"U+1E6E">>,
      <<"U+1E70">>, <<"U+1E72">>, <<"U+1E74">>, <<"U+1E76">>, <<"U+1E78">>,
      <<"U+1E7A">>, <<"U+1E7C">>, <<"U+1E7E">>, <<"U+1E80">>, <<"U+1E82">>,
      <<"U+1E84">>, <<"U+1E86">>, <<"U+1E88">>, <<"U+1E8A">>, <<"U+1E8C">>,
      <<"U+1E8E">>, <<"U+1E90">>, <<"U+1E92">>, <<"U+1E94">>,
      <<"H", "U+0331">>, <<"T", "U+0308">>, <<"W", "U+030A">>,
      <<"Y", "U+030A">>, <<"A", "U+02BE">>, <<"U+1E60">>, <<"U+1EA0">>,
      <<"U+1EA2">>, <<"U+1EA4">>, <<"U+1EA6">>, <<"U+1EA8">>, <<"U+1EAA">>,
      <<"U+1EAC">>, <<"U+1EAE">>, <<"U+1EB0">>, <<"U+1EB2">>, <<"U+1EB4">>,
      <<"U+1EB6">>, <<"U+1EB8">>, <<"U+1EBA">>, <<"U+1EBC">>, <<"U+1EBE">>,
      <<"U+1EC0">>, <<"U+1EC2">>, <<"U+1EC4">>, <<"U+1EC6">>, <<"U+1EC8">>,
      <<"U+1ECA">>, <<"U+1ECC">>, <<"U+1ECE">>, <<"U+1ED0">>, <<"U+1ED2">>,
      <<"U+1ED4">>, <<"U+1ED6">>, <<"U+1ED8">>, <<"U+1EDA">>, <<"U+1EDC">>,
      <<"U+1EDE">>, <<"U+1EE0">>, <<"U+1EE2">>, <<"U+1EE4">>, <<"U+1EE6">>,
      <<"U+1EE8">>, <<"U+1EEA">>, <<"U+1EEC">>, <<"U+1EEE">>, <<"U+1EF0">>,
      <<"U+1EF2">>, <<"U+1EF4">>, <<"U+1EF6">>, <<"U+1EF8">>, <<"U+1EFA">>,
      <<"U+1EFC">>, <<"U+1EFE">>, <<"U+1F08">>, <<"U+1F09">>, <<"U+1F0A">>,
      <<"U+1F0B">>, <<"U+1F0C">>, <<"U+1F0D">>, <<"U+1F0E">>, <<"U+1F0F">>,
      <<"U+1F18">>, <<"U+1F19">>, <<"U+1F1A">>, <<"U+1F1B">>, <<"U+1F1C">>,
      <<"U+1F1D">>, <<"U+1F28">>, <<"U+1F29">>, <<"U+1F2A">>, <<"U+1F2B">>,
      <<"U+1F2C">>, <<"U+1F2D">>, <<"U+1F2E">>, <<"U+1F2F">>, <<"U+1F38">>,
      <<"U+1F39">>, <<"U+1F3A">>, <<"U+1F3B">>, <<"U+1F3C">>, <<"U+1F3D">>,
      <<"U+1F3E">>, <<"U+1F3F">>, <<"U+1F48">>, <<"U+1F49">>, <<"U+1F4A">>,
      <<"U+1F4B">>, <<"U+1F4C">>, <<"U+1F4D">>, <<"U+03A5", "U+0313">>,
      <<"U+1F59">>, <<"U+03A5", "U+0313", "U+0300">>, <<"U+1F5B">>,
      <<"U+03A5", "U+0313", "U+0301">>, <<"U+1F5D">>,
      <<"U+03A5", "U+0313", "U+0342">>, <<"U+1F5F">>, <<"U+1F68">>,
      <<"U+1F69">>, <<"U+1F6A">>, <<"U+1F6B">>, <<"U+1F6C">>, <<"U+1F6D">>,
      <<"U+1F6E">>, <<"U+1F6F">>, <<"U+1FBA">>, <<"U+1FBB">>, <<"U+1FC8">>,
      <<"U+1FC9">>, <<"U+1FCA">>, <<"U+1FCB">>, <<"U+1FDA">>, <<"U+1FDB">>,
      <<"U+1FF8">>, <<"U+1FF9">>, <<"U+1FEA">>, <<"U+1FEB">>, <<"U+1FFA">>,
      <<"U+1FFB">>, <<"U+1F08", "U+0399">>, <<"U+1F09", "U+0399">>,
      <<"U+1F0A", "U+0399">>, <<"U+1F0B", "U+0399">>, <<"U+1F0C", "U+0399">>,
      <<"U+1F0D", "U+0399">>, <<"U+1F0E", "U+0399">>, <<"U+1F0F", "U+0399">>,
      <<"U+1F08", "U+0399">>, <<"U+1F09", "U+0399">>, <<"U+1F0A", "U+0399">>,
      <<"U+1F0B", "U+0399">>, <<"U+1F0C", "U+0399">>, <<"U+1F0D", "U+0399">>,
      <<"U+1F0E", "U+0399">>, <<"U+1F0F", "U+0399">>, <<"U+1F28", "U+0399">>,
      <<"U+1F29", "U+0399">>, <<"U+1F2A", "U+0399">>, <<"U+1F2B", "U+0399">>,
      <<"U+1F2C", "U+0399">>, <<"U+1F2D", "U+0399">>, <<"U+1F2E", "U+0399">>,
      <<"U+1F2F", "U+0399">>, <<"U+1F28", "U+0399">>, <<"U+1F29", "U+0399">>,
      <<"U+1F2A", "U+0399">>, <<"U+1F2B", "U+0399">>, <<"U+1F2C", "U+0399">>,
      <<"U+1F2D", "U+0399">>, <<"U+1F2E", "U+0399">>, <<"U+1F2F", "U+0399">>,
      <<"U+1F68", "U+0399">>, <<"U+1F69", "U+0399">>, <<"U+1F6A", "U+0399">>,
      <<"U+1F6B", "U+0399">>, <<"U+1F6C", "U+0399">>, <<"U+1F6D", "U+0399">>,
      <<"U+1F6E", "U+0399">>, <<"U+1F6F", "U+0399">>, <<"U+1F68", "U+0399">>,
      <<"U+1F69", "U+0399">>, <<"U+1F6A", "U+0399">>, <<"U+1F6B", "U+0399">>,
      <<"U+1F6C", "U+0399">>, <<"U+1F6D", "U+0399">>, <<"U+1F6E", "U+0399">>,
      <<"U+1F6F", "U+0399">>, <<"U+1FB8">>, <<"U+1FB9">>,
      <<"U+1FBA", "U+0399">>, <<"U+0391", "U+0399">>, <<"U+0386", "U+0399">>,
      <<"U+0391", "U+0342">>, <<"U+0391", "U+0342", "U+0399">>,
      <<"U+0391", "U+0399">>, <<"U+0399">>, <<"U+1FCA", "U+0399">>,
      <<"U+0397", "U+0399">>, <<"U+0389", "U+0399">>, <<"U+0397", "U+0342">>,
      <<"U+0397", "U+0342", "U+0399">>, <<"U+0397", "U+0399">>, <<"U+1FD8">>,
      <<"U+1FD9">>, <<"U+0399", "U+0308", "U+0300">>,
      <<"U+0399", "U+0308", "U+0301">>, <<"U+0399", "U+0342">>,
      <<"U+0399", "U+0308", "U+0342">>, <<"U+1FE8">>, <<"U+1FE9">>,
      <<"U+03A5", "U+0308", "U+0300">>, <<"U+03A5", "U+0308", "U+0301">>,
      <<"U+03A1", "U+0313">>, <<"U+1FEC">>, <<"U+03A5", "U+0342">>,
      <<"U+03A5", "U+0308", "U+0342">>, <<"U+1FFA", "U+0399">>,
      <<"U+03A9", "U+0399">>, <<"U+038F", "U+0399">>, <<"U+03A9", "U+0342">>,
      <<"U+03A9", "U+0342", "U+0399">>, <<"U+03A9", "U+0399">>, <<"U+2132">>,
      <<"U+2160">>, <<"U+2161">>, <<"U+2162">>, <<"U+2163">>, <<"U+2164">>,
      <<"U+2165">>, <<"U+2166">>, <<"U+2167">>, <<"U+2168">>, <<"U+2169">>,
      <<"U+216A">>, <<"U+216B">>, <<"U+216C">>, <<"U+216D">>, <<"U+216E">>,
      <<"U+216F">>, <<"U+2183">>, <<"U+24B6">>, <<"U+24B7">>, <<"U+24B8">>,
      <<"U+24B9">>, <<"U+24BA">>, <<"U+24BB">>, <<"U+24BC">>, <<"U+24BD">>,
      <<"U+24BE">>, <<"U+24BF">>, <<"U+24C0">>, <<"U+24C1">>, <<"U+24C2">>,
      <<"U+24C3">>, <<"U+24C4">>, <<"U+24C5">>, <<"U+24C6">>, <<"U+24C7">>,
      <<"U+24C8">>, <<"U+24C9">>, <<"U+24CA">>, <<"U+24CB">>, <<"U+24CC">>,
      <<"U+24CD">>, <<"U+24CE">>, <<"U+24CF">>, <<"U+2C00">>, <<"U+2C01">>,
      <<"U+2C02">>, <<"U+2C03">>, <<"U+2C04">>, <<"U+2C05">>, <<"U+2C06">>,
      <<"U+2C07">>, <<"U+2C08">>, <<"U+2C09">>, <<"U+2C0A">>, <<"U+2C0B">>,
      <<"U+2C0C">>, <<"U+2C0D">>, <<"U+2C0E">>, <<"U+2C0F">>, <<"U+2C10">>,
      <<"U+2C11">>, <<"U+2C12">>, <<"U+2C13">>, <<"U+2C14">>, <<"U+2C15">>,
      <<"U+2C16">>, <<"U+2C17">>, <<"U+2C18">>, <<"U+2C19">>, <<"U+2C1A">>,
      <<"U+2C1B">>, <<"U+2C1C">>, <<"U+2C1D">>, <<"U+2C1E">>, <<"U+2C1F">>,
      <<"U+2C20">>, <<"U+2C21">>, <<"U+2C22">>, <<"U+2C23">>, <<"U+2C24">>,
      <<"U+2C25">>, <<"U+2C26">>, <<"U+2C27">>, <<"U+2C28">>, <<"U+2C29">>,
      <<"U+2C2A">>, <<"U+2C2B">>, <<"U+2C2C">>, <<"U+2C2D">>, <<"U+2C2E">>,
      <<"U+2C2F">>, <<"U+2C60">>, <<"U+023A">>, <<"U+023E">>, <<"U+2C67">>,
      <<"U+2C69">>, <<"U+2C6B">>, <<"U+2C72">>, <<"U+2C75">>, <<"U+2C80">>,
      <<"U+2C82">>, <<"U+2C84">>, <<"U+2C86">>, <<"U+2C88">>, <<"U+2C8A">>,
      <<"U+2C8C">>, <<"U+2C8E">>, <<"U+2C90">>, <<"U+2C92">>, <<"U+2C94">>,
      <<"U+2C96">>, <<"U+2C98">>, <<"U+2C9A">>, <<"U+2C9C">>, <<"U+2C9E">>,
      <<"U+2CA0">>, <<"U+2CA2">>, <<"U+2CA4">>, <<"U+2CA6">>, <<"U+2CA8">>,
      <<"U+2CAA">>, <<"U+2CAC">>, <<"U+2CAE">>, <<"U+2CB0">>, <<"U+2CB2">>,
      <<"U+2CB4">>, <<"U+2CB6">>, <<"U+2CB8">>, <<"U+2CBA">>, <<"U+2CBC">>,
      <<"U+2CBE">>, <<"U+2CC0">>, <<"U+2CC2">>, <<"U+2CC4">>, <<"U+2CC6">>,
      <<"U+2CC8">>, <<"U+2CCA">>, <<"U+2CCC">>, <<"U+2CCE">>, <<"U+2CD0">>,
      <<"U+2CD2">>, <<"U+2CD4">>, <<"U+2CD6">>, <<"U+2CD8">>, <<"U+2CDA">>,
      <<"U+2CDC">>, <<"U+2CDE">>, <<"U+2CE0">>, <<"U+2CE2">>, <<"U+2CEB">>,
      <<"U+2CED">>, <<"U+2CF2">>, <<"U+10A0">>, <<"U+10A1">>, <<"U+10A2">>,
      <<"U+10A3">>, <<"U+10A4">>, <<"U+10A5">>, <<"U+10A6">>, <<"U+10A7">>,
      <<"U+10A8">>, <<"U+10A9">>, <<"U+10AA">>, <<"U+10AB">>, <<"U+10AC">>,
      <<"U+10AD">>, <<"U+10AE">>, <<"U+10AF">>, <<"U+10B0">>, <<"U+10B1">>,
      <<"U+10B2">>, <<"U+10B3">>, <<"U+10B4">>, <<"U+10B5">>, <<"U+10B6">>,
      <<"U+10B7">>, <<"U+10B8">>, <<"U+10B9">>, <<"U+10BA">>, <<"U+10BB">>,
      <<"U+10BC">>, <<"U+10BD">>, <<"U+10BE">>, <<"U+10BF">>, <<"U+10C0">>,
      <<"U+10C1">>, <<"U+10C2">>, <<"U+10C3">>, <<"U+10C4">>, <<"U+10C5">>,
      <<"U+10C7">>, <<"U+10CD">>, <<"U+A640">>, <<"U+A642">>, <<"U+A644">>,
      <<"U+A646">>, <<"U+A648">>, <<"U+A64A">>, <<"U+A64C">>, <<"U+A64E">>,
      <<"U+A650">>, <<"U+A652">>, <<"U+A654">>, <<"U+A656">>, <<"U+A658">>,
      <<"U+A65A">>, <<"U+A65C">>, <<"U+A65E">>, <<"U+A660">>, <<"U+A662">>,
      <<"U+A664">>, <<"U+A666">>, <<"U+A668">>, <<"U+A66A">>, <<"U+A66C">>,
      <<"U+A680">>, <<"U+A682">>, <<"U+A684">>, <<"U+A686">>, <<"U+A688">>,
      <<"U+A68A">>, <<"U+A68C">>, <<"U+A68E">>, <<"U+A690">>, <<"U+A692">>,
      <<"U+A694">>, <<"U+A696">>, <<"U+A698">>, <<"U+A69A">>, <<"U+A722">>,
      <<"U+A724">>, <<"U+A726">>, <<"U+A728">>, <<"U+A72A">>, <<"U+A72C">>,
      <<"U+A72E">>, <<"U+A732">>, <<"U+A734">>, <<"U+A736">>, <<"U+A738">>,
      <<"U+A73A">>, <<"U+A73C">>, <<"U+A73E">>, <<"U+A740">>, <<"U+A742">>,
      <<"U+A744">>, <<"U+A746">>, <<"U+A748">>, <<"U+A74A">>, <<"U+A74C">>,
      <<"U+A74E">>, <<"U+A750">>, <<"U+A752">>, <<"U+A754">>, <<"U+A756">>,
      <<"U+A758">>, <<"U+A75A">>, <<"U+A75C">>, <<"U+A75E">>, <<"U+A760">>,
      <<"U+A762">>, <<"U+A764">>, <<"U+A766">>, <<"U+A768">>, <<"U+A76A">>,
      <<"U+A76C">>, <<"U+A76E">>, <<"U+A779">>, <<"U+A77B">>, <<"U+A77E">>,
      <<"U+A780">>, <<"U+A782">>, <<"U+A784">>, <<"U+A786">>, <<"U+A78B">>,
      <<"U+A790">>, <<"U+A792">>, <<"U+A7C4">>, <<"U+A796">>, <<"U+A798">>,
      <<"U+A79A">>, <<"U+A79C">>, <<"U+A79E">>, <<"U+A7A0">>, <<"U+A7A2">>,
      <<"U+A7A4">>, <<"U+A7A6">>, <<"U+A7A8">>, <<"U+A7B4">>, <<"U+A7B6">>,
      <<"U+A7B8">>, <<"U+A7BA">>, <<"U+A7BC">>, <<"U+A7BE">>, <<"U+A7C0">>,
      <<"U+A7C2">>, <<"U+A7C7">>, <<"U+A7C9">>, <<"U+A7D0">>, <<"U+A7D6">>,
      <<"U+A7D8">>, <<"U+A7F5">>, <<"U+A7B3">>, <<"U+13A0">>, <<"U+13A1">>,
      <<"U+13A2">>, <<"U+13A3">>, <<"U+13A4">>, <<"U+13A5">>, <<"U+13A6">>,
      <<"U+13A7">>, <<"U+13A8">>, <<"U+13A9">>, <<"U+13AA">>, <<"U+13AB">>,
      <<"U+13AC">>, <<"U+13AD">>, <<"U+13AE">>, <<"U+13AF">>, <<"U+13B0">>,
      <<"U+13B1">>, <<"U+13B2">>, <<"U+13B3">>, <<"U+13B4">>, <<"U+13B5">>,
      <<"U+13B6">>, <<"U+13B7">>, <<"U+13B8">>, <<"U+13B9">>, <<"U+13BA">>,
      <<"U+13BB">>, <<"U+13BC">>, <<"U+13BD">>, <<"U+13BE">>, <<"U+13BF">>,
      <<"U+13C0">>, <<"U+13C1">>, <<"U+13C2">>, <<"U+13C3">>, <<"U+13C4">>,
      <<"U+13C5">>, <<"U+13C6">>, <<"U+13C7">>, <<"U+13C8">>, <<"U+13C9">>,
      <<"U+13CA">>, <<"U+13CB">>, <<"U+13CC">>, <<"U+13CD">>, <<"U+13CE">>,
      <<"U+13CF">>, <<"U+13D0">>, <<"U+13D1">>, <<"U+13D2">>, <<"U+13D3">>,
      <<"U+13D4">>, <<"U+13D5">>, <<"U+13D6">>, <<"U+13D7">>, <<"U+13D8">>,
      <<"U+13D9">>, <<"U+13DA">>, <<"U+13DB">>, <<"U+13DC">>, <<"U+13DD">>,
      <<"U+13DE">>, <<"U+13DF">>, <<"U+13E0">>, <<"U+13E1">>, <<"U+13E2">>,
      <<"U+13E3">>, <<"U+13E4">>, <<"U+13E5">>, <<"U+13E6">>, <<"U+13E7">>,
      <<"U+13E8">>, <<"U+13E9">>, <<"U+13EA">>, <<"U+13EB">>, <<"U+13EC">>,
      <<"U+13ED">>, <<"U+13EE">>, <<"U+13EF">>, <<"F", "F">>, <<"F", "I">>,
      <<"F", "L">>, <<"F", "F", "I">>, <<"F", "F", "L">>, <<"S", "T">>,
      <<"S", "T">>, <<"U+0544", "U+0546">>, <<"U+0544", "U+0535">>,
      <<"U+0544", "U+053B">>, <<"U+054E", "U+0546">>, <<"U+0544", "U+053D">>,
      <<"U+FF21">>, <<"U+FF22">>, <<"U+FF23">>, <<"U+FF24">>, <<"U+FF25">>,
      <<"U+FF26">>, <<"U+FF27">>, <<"U+FF28">>, <<"U+FF29">>, <<"U+FF2A">>,
      <<"U+FF2B">>, <<"U+FF2C">>, <<"U+FF2D">>, <<"U+FF2E">>, <<"U+FF2F">>,
      <<"U+FF30">>, <<"U+FF31">>, <<"U+FF32">>, <<"U+FF33">>, <<"U+FF34">>,
      <<"U+FF35">>, <<"U+FF36">>, <<"U+FF37">>, <<"U+FF38">>, <<"U+FF39">>,
      <<"U+FF3A">>, <<"U+10400">>, <<"U+10401">>, <<"U+10402">>,
      <<"U+10403">>, <<"U+10404">>, <<"U+10405">>, <<"U+10406">>,
      <<"U+10407">>, <<"U+10408">>, <<"U+10409">>, <<"U+1040A">>,
      <<"U+1040B">>, <<"U+1040C">>, <<"U+1040D">>, <<"U+1040E">>,
      <<"U+1040F">>, <<"U+10410">>, <<"U+10411">>, <<"U+10412">>,
      <<"U+10413">>, <<"U+10414">>, <<"U+10415">>, <<"U+10416">>,
      <<"U+10417">>, <<"U+10418">>, <<"U+10419">>, <<"U+1041A">>,
      <<"U+1041B">>, <<"U+1041C">>, <<"U+1041D">>, <<"U+1041E">>,
      <<"U+1041F">>, <<"U+10420">>, <<"U+10421">>, <<"U+10422">>,
      <<"U+10423">>, <<"U+10424">>, <<"U+10425">>, <<"U+10426">>,
      <<"U+10427">>, <<"U+104B0">>, <<"U+104B1">>, <<"U+104B2">>,
      <<"U+104B3">>, <<"U+104B4">>, <<"U+104B5">>, <<"U+104B6">>,
      <<"U+104B7">>, <<"U+104B8">>, <<"U+104B9">>, <<"U+104BA">>,
      <<"U+104BB">>, <<"U+104BC">>, <<"U+104BD">>, <<"U+104BE">>,
      <<"U+104BF">>, <<"U+104C0">>, <<"U+104C1">>, <<"U+104C2">>,
      <<"U+104C3">>, <<"U+104C4">>, <<"U+104C5">>, <<"U+104C6">>,
      <<"U+104C7">>, <<"U+104C8">>, <<"U+104C9">>, <<"U+104CA">>,
      <<"U+104CB">>, <<"U+104CC">>, <<"U+104CD">>, <<"U+104CE">>,
      <<"U+104CF">>, <<"U+104D0">>, <<"U+104D1">>, <<"U+104D2">>,
      <<"U+104D3">>, <<"U+10570">>, <<"U+10571">>, <<"U+10572">>,
      <<"U+10573">>, <<"U+10574">>, <<"U+10575">>, <<"U+10576">>,
      <<"U+10577">>, <<"U+10578">>, <<"U+10579">>, <<"U+1057A">>,
      <<"U+1057C">>, <<"U+1057D">>, <<"U+1057E">>, <<"U+1057F">>,
      <<"U+10580">>, <<"U+10581">>, <<"U+10582">>, <<"U+10583">>,
      <<"U+10584">>, <<"U+10585">>, <<"U+10586">>, <<"U+10587">>,
      <<"U+10588">>, <<"U+10589">>, <<"U+1058A">>, <<"U+1058C">>,
      <<"U+1058D">>, <<"U+1058E">>, <<"U+1058F">>, <<"U+10590">>,
      <<"U+10591">>, <<"U+10592">>, <<"U+10594">>, <<"U+10595">>,
      <<"U+10C80">>, <<"U+10C81">>, <<"U+10C82">>, <<"U+10C83">>,
      <<"U+10C84">>, <<"U+10C85">>, <<"U+10C86">>, <<"U+10C87">>,
      <<"U+10C88">>, <<"U+10C89">>, <<"U+10C8A">>, <<"U+10C8B">>,
      <<"U+10C8C">>, <<"U+10C8D">>, <<"U+10C8E">>, <<"U+10C8F">>,
      <<"U+10C90">>, <<"U+10C91">>, <<"U+10C92">>, <<"U+10C93">>,
      <<"U+10C94">>, <<"U+10C95">>, <<"U+10C96">>, <<"U+10C97">>,
      <<"U+10C98">>, <<"U+10C99">>, <<"U+10C9A">>, <<"U+10C9B">>,
      <<"U+10C9C">>, <<"U+10C9D">>, <<"U+10C9E">>, <<"U+10C9F">>,
      <<"U+10CA0">>, <<"U+10CA1">>, <<"U+10CA2">>, <<"U+10CA3">>,
      <<"U+10CA4">>, <<"U+10CA5">>, <<"U+10CA6">>, <<"U+10CA7">>,
      <<"U+10CA8">>, <<"U+10CA9">>, <<"U+10CAA">>, <<"U+10CAB">>,
      <<"U+10CAC">>, <<"U+10CAD">>, <<"U+10CAE">>, <<"U+10CAF">>,
      <<"U+10CB0">>, <<"U+10CB1">>, <<"U+10CB2">>, <<"U+118A0">>,
      <<"U+118A1">>, <<"U+118A2">>, <<"U+118A3">>, <<"U+118A4">>,
      <<"U+118A5">>, <<"U+118A6">>, <<"U+118A7">>, <<"U+118A8">>,
      <<"U+118A9">>, <<"U+118AA">>, <<"U+118AB">>, <<"U+118AC">>,
      <<"U+118AD">>, <<"U+118AE">>, <<"U+118AF">>, <<"U+118B0">>,
      <<"U+118B1">>, <<"U+118B2">>, <<"U+118B3">>, <<"U+118B4">>,
      <<"U+118B5">>, <<"U+118B6">>, <<"U+118B7">>, <<"U+118B8">>,
      <<"U+118B9">>, <<"U+118BA">>, <<"U+118BB">>, <<"U+118BC">>,
      <<"U+118BD">>, <<"U+118BE">>, <<"U+118BF">>, <<"U+16E40">>,
      <<"U+16E41">>, <<"U+16E42">>, <<"U+16E43">>, <<"U+16E44">>,
      <<"U+16E45">>, <<"U+16E46">>, <<"U+16E47">>, <<"U+16E48">>,
      <<"U+16E49">>, <<"U+16E4A">>, <<"U+16E4B">>, <<"U+16E4C">>,
      <<"U+16E4D">>, <<"U+16E4E">>, <<"U+16E4F">>, <<"U+16E50">>,
      <<"U+16E51">>, <<"U+16E52">>, <<"U+16E53">>, <<"U+16E54">>,
      <<"U+16E55">>, <<"U+16E56">>, <<"U+16E57">>, <<"U+16E58">>,
      <<"U+16E59">>, <<"U+16E5A">>, <<"U+16E5B">>, <<"U+16E5C">>,
      <<"U+16E5D">>, <<"U+16E5E">>, <<"U+16E5F">>, <<"U+1E900">>,
      <<"U+1E901">>, <<"U+1E902">>, <<"U+1E903">>, <<"U+1E904">>,
      <<"U+1E905">>, <<"U+1E906">>, <<"U+1E907">>, <<"U+1E908">>,
      <<"U+1E909">>, <<"U+1E90A">>, <<"U+1E90B">>, <<"U+1E90C">>,
      <<"U+1E90D">>, <<"U+1E90E">>, <<"U+1E90F">>, <<"U+1E910">>,
      <<"U+1E911">>, <<"U+1E912">>, <<"U+1E913">>, <<"U+1E914">>,
      <<"U+1E915">>, <<"U+1E916">>, <<"U+1E917">>, <<"U+1E918">>,
      <<"U+1E919">>, <<"U+1E91A">>, <<"U+1E91B">>, <<"U+1E91C">>,
      <<"U+1E91D">>, <<"U+1E91E">>, <<"U+1E91F">>, <<"U+1E920">>,
      <<"U+1E921">> >>

\* the other characters str.lower() changes, capital sigma excepted
LowerMoreSrc ==
    << "U+0100", "U+0102", "U+0104", "U+0106", "U+0108", "U+010A", "U+010C",
      "U+010E", "U+0110", "U+0112", "U+0114", "U+0116", "U+0118", "U+011A",
      "U+011C", "U+011E", "U+0120", "U+0122", "U+0124", "U+0126", "U+0128",
      "U+012A", "U+012C", "U+012E", "U+0130", "U+0132", "U+0134", "U+0136",
      "U+0139", "U+013B", "U+013D", "U+013F", "U+0141", "U+0143", "U+0145",
      "U+0147", "U+014A", "U+014C", "U+014E", "U+0150", "U+0152", "U+0154",
      "U+0156", "U+0158", "U+015A", "U+015C", "U+015E", "U+0160", "U+0162",
      "U+0164", "U+0166", "U+0168", "U+016A", "U+016C", "U+016E", "U+0170",
      "U+0172", "U+0174", "U+0176", "U+0178", "U+0179", "U+017B", "U+017D",
      "U+0181", "U+0182", "U+0184", "U+0186", "U+0187", "U+0189", "U+018A",
      "U+018B", "U+018E", "U+018F", "U+0190", "U+0191", "U+0193", "U+0194",
      "U+0196", "U+0197", "U+0198", "U+019C", "U+019D", "U+019F", "U+01A0",
      "U+01A2", "U+01A4", "U+01A6", "U+01A7", "U+01A9", "U+01AC", "U+01AE",
      "U+01AF", "U+01B1", "U+01B2", "U+01B3", "U+01B5", "U+01B7", "U+01B8",
      "U+01BC", "U+01C4", "U+01C5", "U+01C7", "U+01C8", "U+01CA", "U+01CB",
      "U+01CD", "U+01CF", "U+01D1", "U+01D3", "U+01D5", "U+01D7", "U+01D9",
      "U+01DB", "U+01DE", "U+01E0", "U+01E2", "U+01E4", "U+01E6", "U+01E8",
      "U+01EA", "U+01EC", "U+01EE", "U+01F1", "U+01F2", "U+01F4", "U+01F6",
      "U+01F7", "U+01F8", "U+01FA", "U+01FC", "U+01FE", "U+0200", "U+0202",
      "U+0204", "U+0206", "U+0208", "U+020A", "U+020C", "U+020E", "U+0210",
      "U+0212", "U+0214", "U+0216", "U+0218", "U+021A", "U+021C", "U+021E",
      "U+0220", "U+0222", "U+0224", "U+0226", "U+0228", "U+022A", "U+022C",
      "U+022E", "U+0230", "U+0232", "U+023A", "U+023B", "U+023D", "U+023E",
      "U+0241", "U+0243", "U+0244", "U+0245", "U+0246", "U+0248", "U+024A",
      "U+024C", "U+024E", "U+0370", "U+0372", "U+0376", "U+037F", "U+0386",
      "U+0388", "U+0389", "U+038A", "U+038C", "U+038E", "U+038F", "U+0391",
      "U+0392", "U+0393", "U+0394", "U+0395", "U+0396", "U+0397", "U+0398",
      "U+0399", "U+039A", "U+039B", "U+039C", "U+039D", "U+039E", "U+039F",
      "U+03A0", "U+03A1", "U+03A4", "U+03A5", "U+03A6", "U+03A7", "U+03A8",
      "U+03A9", "U+03AA", "U+03AB", "U+03CF", "U+03D8", "U+03DA", "U+03DC",
      "U+03DE", "U+03E0", "U+03E2", "U+03E4", "U+03E6", "U+03E8", "U+03EA",
      "U+03EC", "U+03EE", "U+03F4", "U+03F7", "U+03F9", "U+03FA", "U+03FD",
      "U+03FE", "U+03FF", "U+0400", "U+0401", "U+0402", "U+0403", "U+0404",
      "U+0405", "U+0406", "U+0407", "U+0408", "U+0409", "U+040A", "U+040B",
      "U+040C", "U+040D", "U+040E", "U+040F", "U+0410", "U+0411", "U+0412",
      "U+0413", "U+0414", "U+0415", "U+0416", "U+0417", "U+0418", "U+0419",
      "U+041A", "U+041B", "U+041C", "U+041D", "U+041E", "U+041F", "U+0420",
      "U+0421", "U+0422", "U+0423", "U+0424", "U+0425", "U+0426", "U+0427",
      "U+0428", "U+0429", "U+042A", "U+042B", "U+042C", "U+042D", "U+042E",
      "U+042F", "U+0460", "U+0462", "U+0464", "U+0466", "U+0468", "U+046A",
      "U+046C", "U+046E", "U+0470", "U+0472", "U+0474", "U+0476", "U+0478",
      "U+047A", "U+047C", "U+047E", "U+0480", "U+048A", "U+048C", "U+048E",
      "U+0490", "U+0492", "U+0494", "U+0496", "U+0498", "U+049A", "U+049C",
      "U+049E", "U+04A0", "U+04A2", "U+04A4", "U+04A6", "U+04A8", "U+04AA",
      "U+04AC", "U+04AE", "U+04B0", "U+04B2", "U+04B4", "U+04B6", "U+04B8",
      "U+04BA", "U+04BC", "U+04BE", "U+04C0", "U+04C1", "U+04C3", "U+04C5",
      "U+04C7", "U+04C9", "U+04CB", "U+04CD", "U+04D0", "U+04D2", "U+04D4",
      "U+04D6", "U+04D8", "U+04DA", "U+04DC", "U+04DE", "U+04E0", "U+04E2",
      "U+04E4", "U+04E6", "U+04E8", "U+04EA", "U+04EC", "U+04EE", "U+04F0",
      "U+04F2", "U+04F4", "U+04F6", "U+04F8", "U+04FA", "U+04FC", "U+04FE",
      "U+0500", "U+0502", "U+0504", "U+0506", "U+0508", "U+050A", "U+050C",
      "U+050E", "U+0510", "U+0512", "U+0514", "U+0516", "U+0518", "U+051A",
      "U+051C", "U+051E", "U+0520", "U+0522", "U+0524", "U+0526", "U+0528",
      "U+052A", "U+052C", "U+052E", "U+0531", "U+0532", "U+0533", "U+0534",
      "U+0535", "U+0536", "U+0537", "U+0538", "U+0539", "U+053A", "U+053B",
      "U+053C", "U+053D", "U+053E", "U+053F", "U+0540", "U+0541", "U+0542",
      "U+0543", "U+0544", "U+0545", "U+0546", "U+0547", "U+0548", "U+0549",
      "U+054A", "U+054B", "U+054C", "U+054D", "U+054E", "U+054F", "U+0550",
      "U+0551", "U+0552", "U+0553", "U+0554", "U+0555", "U+0556", "U+10A0",
      "U+10A1", "U+10A2", "U+10A3", "U+10A4", "U+10A5", "U+10A6", "U+10A7",
      "U+10A8", "U+10A9", "U+10AA", "U+10AB", "U+10AC", "U+10AD", "U+10AE",
      "U+10AF", "U+10B0", "U+10B1", "U+10B2", "U+10B3", "U+10B4", "U+10B5",
      "U+10B6", "U+10B7", "U+10B8", "U+10B9", "U+10BA", "U+10BB", "U+10BC",
      "U+10BD", "U+10BE", "U+10BF", "U+10C0", "U+10C1", "U+10C2", "U+10C3",
      "U+10C4", "U+10C5", "U+10C7", "U+10CD", "U+13A0", "U+13A1", "U+13A2",
      "U+13A3", "U+13A4", "U+13A5", "U+13A6", "U+13A7", "U+13A8", "U+13A9",
      "U+13AA", "U+13AB", "U+13AC", "U+13AD", "U+13AE", "U+13AF", "U+13B0",
      "U+13B1", "U+13B2", "U+13B3", "U+13B4", "U+13B5", "U+13B6", "U+13B7",
      "U+13B8", "U+13B9", "U+13BA", "U+13BB", "U+13BC", "U+13BD", "U+13BE",
      "U+13BF", "U+13C0", "U+13C1", "U+13C2", "U+13C3", "U+13C4", "U+13C5",
      "U+13C6", "U+13C7", "U+13C8", "U+13C9", "U+13CA", "U+13CB", "U+13CC",
      "U+13CD", "U+13CE", "U+13CF", "U+13D0", "U+13D1", "U+13D2", "U+13D3",
      "U+13D4", "U+13D5", "U+13D6", "U+13D7", "U+13D8", "U+13D9", "U+13DA",
      "U+13DB", "U+13DC", "U+13DD", "U+13DE", "U+13DF", "U+13E0", "U+13E1",
      "U+13E2", "U+13E3", "U+13E4", "U+13E5", "U+13E6", "U+13E7", "U+13E8",
      "U+13E9", "U+13EA", "U+13EB", "U+13EC", "U+13ED", "U+13EE", "U+13EF",
      "U+13F0", "U+13F1", "U+13F2", "U+13F3", "U+13F4", "U+13F5", "U+1C90",
      "U+1C91", "U+1C92", "U+1C93", "U+1C94", "U+1C95", "U+1C96", "U+1C97",
      "U+1C98", "U+1C99", "U+1C9A", "U+1C9B", "U+1C9C", "U+1C9D", "U+1C9E",
      "U+1C9F", "U+1CA0", "U+1CA1", "U+1CA2", "U+1CA3", "U+1CA4", "U+1CA5",
      "U+1CA6", "U+1CA7", "U+1CA8", "U+1CA9", "U+1CAA", "U+1CAB", "U+1CAC",
      "U+1CAD", "U+1CAE", "U+1CAF", "U+1CB0", "U+1CB1", "U+1CB2", "U+1CB3",
      "U+1CB4", "U+1CB5", "U+1CB6", "U+1CB7", "U+1CB8", "U+1CB9", "U+1CBA",
      "U+1CBD", "U+1CBE", "U+1CBF", "U+1E00", "U+1E02", "U+1E04", "U+1E06",
      "U+1E08", "U+1E0A", "U+1E0C", "U+1E0E", "U+1E10", "U+1E12", "U+1E14",
      "U+1E16", "U+1E18", "U+1E1A", "U+1E1C", "U+1E1E", "U+1E20", "U+1E22",
      "U+1E24", "U+1E26", "U+1E28", "U+1E2A", "U+1E2C", "U+1E2E", "U+1E30",
      "U+1E32", "U+1E34", "U+1E36", "U+1E38", "U+1E3A", "U+1E3C", "U+1E3E",
      "U+1E40", "U+1E42", "U+1E44", "U+1E46", "U+1E48", "U+1E4A", "U+1E4C",
      "U+1E4E", "U+1E50", "U+1E52", "U+1E54", "U+1E56", "U+1E58", "U+1E5A",
      "U+1E5C", "U+1E5E", "U+1E60", "U+1E62", "U+1E64", "U+1E66", "U+1E68",
      "U+1E6A", "U+1E6C", "U+1E6E", "U+1E70", "U+1E72", "U+1E74", "U+1E76",
      "U+1E78", "U+1E7A", "U+1E7C", "U+1E7E", "U+1E80", "U+1E82", "U+1E84",
      "U+1E86", "U+1E88", "U+1E8A", "U+1E8C", "U+1E8E", "U+1E90", "U+1E92",
      "U+1E94", "U+1E9E", "U+1EA0", "U+1EA2", "U+1EA4", "U+1EA6", "U+1EA8",
      "U+1EAA", "U+1EAC", "U+1EAE", "U+1EB0", "U+1EB2", "U+1EB4", "U+1EB6",
      "U+1EB8", "U+1EBA", "U+1EBC", "U+1EBE", "U+1EC0", "U+1EC2", "U+1EC4",
      "U+1EC6", "U+1EC8", "U+1ECA", "U+1ECC", "U+1ECE", "U+1ED0", "U+1ED2",
      "U+1ED4", "U+1ED6", "U+1ED8", "U+1EDA", "U+1EDC", "U+1EDE", "U+1EE0",
      "U+1EE2", "U+1EE4", "U+1EE6", "U+1EE8", "U+1EEA", "U+1EEC", "U+1EEE",
      "U+1EF0", "U+1EF2", "U+1EF4", "U+1EF6", "U+1EF8", "U+1EFA", "U+1EFC",
      "U+1EFE", "U+1F08", "U+1F09", "U+1F0A", "U+1F0B", "U+1F0C", "U+1F0D",
      "U+1F0E", "U+1F0F", "U+1F18", "U+1F19", "U+1F1A", "U+1F1B", "U+1F1C",
      "U+1F1D", "U+1F28", "U+1F29", "U+1F2A", "U+1F2B", "U+1F2C", "U+1F2D",
      "U+1F2E", "U+1F2F", "U+1F38", "U+1F39", "U+1F3A", "U+1F3B", "U+1F3C",
      "U+1F3D", "U+1F3E", "U+1F3F", "U+1F48", "U+1F49", "U+1F4A", "U+1F4B",
      "U+1F4C", "U+1F4D", "U+1F59", "U+1F5B", "U+1F5D", "U+1F5F", "U+1F68",
      "U+1F69", "U+1F6A", "U+1F6B", "U+1F6C", "U+1F6D", "U+1F6E", "U+1F6F",
      "U+1F88", "U+1F89", "U+1F8A", "U+1F8B", "U+1F8C", "U+1F8D", "U+1F8E",
      "U+1F8F", "U+1F98", "U+1F99", "U+1F9A", "U+1F9B", "U+1F9C", "U+1F9D",
      "U+1F9E", "U+1F9F", "U+1FA8", "U+1FA9", "U+1FAA", "U+1FAB", "U+1FAC",
      "U+1FAD", "U+1FAE", "U+1FAF", "U+1FB8", "U+1FB9", "U+1FBA", "U+1FBB",
      "U+1FBC", "U+1FC8", "U+1FC9", "U+1FCA", "U+1FCB", "U+1FCC", "U+1FD8",
      "U+1FD9", "U+1FDA", "U+1FDB", "U+1FE8", "U+1FE9", "U+1FEA", "U+1FEB",
      "U+1FEC", "U+1FF8", "U+1FF9", "U+1FFA", "U+1FFB", "U+1FFC", "U+2126",
      "U+212A", "U+212B", "U+2132", "U+2160", "U+2161", "U+2162", "U+2163",
      "U+2164", "U+2165", "U+2166", "U+2167", "U+2168", "U+2169", "U+216A",
      "U+216B", "U+216C", "U+216D", "U+216E", "U+216F", "U+2183", "U+24B6",
      "U+24B7", "U+24B8", "U+24B9", "U+24BA", "U+24BB", "U+24BC", "U+24BD",
      "U+24BE", "U+24BF", "U+24C0", "U+24C1", "U+24C2", "U+24C3", "U+24C4",
      "U+24C5", "U+24C6", "U+24C7", "U+24C8", "U+24C9", "U+24CA", "U+24CB",
      "U+24CC", "U+24CD", "U+24CE", "U+24CF", "U+2C00", "U+2C01", "U+2C02",
      "U+2C03", "U+2C04", "U+2C05", "U+2C06", "U+2C07", "U+2C08", "U+2C09",
      "U+2C0A", "U+2C0B", "U+2C0C", "U+2C0D", "U+2C0E", "U+2C0F", "U+2C10",
      "U+2C11", "U+2C12", "U+2C13", "U+2C14", "U+2C15", "U+2C16", "U+2C17",
      "U+2C18", "U+2C19", "U+2C1A", "U+2C1B", "U+2C1C", "U+2C1D", "U+2C1E",
      "U+2C1F", "U+2C20", "U+2C21", "U+2C22", "U+2C23", "U+2C24", "U+2C25",
      "U+2C26", "U+2C27", "U+2C28", "U+2C29", "U+2C2A", "U+2C2B", "U+2C2C",
      "U+2C2D", "U+2C2E", "U+2C2F", "U+2C60", "U+2C62", "U+2C63", "U+2C64",
      "U+2C67", "U+2C69", "U+2C6B", "U+2C6D", "U+2C6E", "U+2C6F", "U+2C70",
      "U+2C72", "U+2C75", "U+2C7E", "U+2C7F", "U+2C80", "U+2C82", "U+2C84",
      "U+2C86", "U+2C88", "U+2C8A", "U+2C8C", "U+2C8E", "U+2C90", "U+2C92",
      "U+2C94", "U+2C96", "U+2C98", "U+2C9A", "U+2C9C", "U+2C9E", "U+2CA0",
      "U+2CA2", "U+2CA4", "U+2CA6", "U+2CA8", "U+2CAA", "U+2CAC", "U+2CAE",
      "U+2CB0", "U+2CB2", "U+2CB4", "U+2CB6", "U+2CB8", "U+2CBA", "U+2CBC",
      "U+2CBE", "U+2CC0", "U+2CC2", "U+2CC4", "U+2CC6", "U+2CC8", "U+2CCA",
      "U+2CCC", "U+2CCE", "U+2CD0", "U+2CD2", "U+2CD4", "U+2CD6", "U+2CD8",
      "U+2CDA", "U+2CDC", "U+2CDE", "U+2CE0", "U+2CE2", "U+2CEB", "U+2CED",
      "U+2CF2", "U+A640", "U+A642", "U+A644", "U+A646", "U+A648", "U+A64A",
      "U+A64C", "U+A64E", "U+A650", "U+A652", "U+A654", "U+A656", "U+A658",
      "U+A65A", "U+A65C", "U+A65E", "U+A660", "U+A662", "U+A664", "U+A666",
      "U+A668", "U+A66A", "U+A66C", "U+A680", "U+A682", "U+A684", "U+A686",
      "U+A688", "U+A68A", "U+A68C", "U+A68E", "U+A690", "U+A692", "U+A694",
      "U+A696", "U+A698", "U+A69A", "U+A722", "U+A724", "U+A726", "U+A728",
      "U+A72A", "U+A72C", "U+A72E", "U+A732", "U+A734", "U+A736", "U+A738",
      "U+A73A", "U+A73C", "U+A73E", "U+A740", "U+A742", "U+A744", "U+A746",
      "U+A748", "U+A74A", "U+A74C", "U+A74E", "U+A750", "U+A752", "U+A754",
      "U+A756", "U+A758", "U+A75A", "U+A75C", "U+A75E", "U+A760", "U+A762",
      "U+A764", "U+A766", "U+A768", "U+A76A", "U+A76C", "U+A76E", "U+A779",
      "U+A77B", "U+A77D", "U+A77E", "U+A780", "U+A782", "U+A784", "U+A786",
      "U+A78B", "U+A78D", "U+A790", "U+A792", "U+A796", "U+A798", "U+A79A",
      "U+A79C", "U+A79E", "U+A7A0", "U+A7A2", "U+A7A4", "U+A7A6", "U+A7A8",
      "U+A7AA", "U+A7AB", "U+A7AC", "U+A7AD", "U+A7AE", "U+A7B0", "U+A7B1",
      "U+A7B2", "U+A7B3", "U+A7B4", "U+A7B6", "U+A7B8", "U+A7BA", "U+A7BC",
      "U+A7BE", "U+A7C0", "U+A7C2", "U+A7C4", "U+A7C5", "U+A7C6", "U+A7C7",
      "U+A7C9", "U+A7D0", "U+A7D6", "U+A7D8", "U+A7F5", "U+FF21", "U+FF22",
      "U+FF23", "U+FF24", "U+FF25", "U+FF26", "U+FF27", "U+FF28", "U+FF29",
      "U+FF2A", "U+FF2B", "U+FF2C", "U+FF2D", "U+FF2E", "U+FF2F", "U+FF30",
      "U+FF31", "U+FF32", "U+FF33", "U+FF34", "U+FF35", "U+FF36", "U+FF37",
      "U+FF38", "U+FF39", "U+FF3A", "U+10400", "U+10401", "U+10402",
      "U+10403", "U+10404", "U+10405", "U+10406", "U+10407", "U+10408",
      "U+10409", "U+1040A", "U+1040B", "U+1040C", "U+1040D", "U+1040E",
      "U+1040F", "U+10410", "U+10411", "U+10412", "U+10413", "U+10414",
      "U+10415", "U+10416", "U+10417", "U+10418", "U+10419", "U+1041A",
      "U+1041B", "U+1041C", "U+1041D", "U+1041E", "U+1041F", "U+10420",
      "U+10421", "U+10422", "U+10423", "U+10424", "U+10425", "U+10426",
      "U+10427", "U+104B0", "U+104B1", "U+104B2", "U+104B3", "U+104B4",
      "U+104B5", "U+104B6", "U+104B7", "U+104B8", "U+104B9", "U+104BA",
      "U+104BB", "U+104BC", "U+104BD", "U+104BE", "U+104BF", "U+104C0",
      "U+104C1", "U+104C2", "U+104C3", "U+104C4", "U+104C5", "U+104C6",
      "U+104C7", "U+104C8", "U+104C9", "U+104CA", "U+104CB", "U+104CC",
      "U+104CD", "U+104CE", "U+104CF", "U+104D0", "U+104D1", "U+104D2",
      "U+104D3", "U+10570", "U+10571", "U+10572", "U+10573", "U+10574",
      "U+10575", "U+10576", "U+10577", "U+10578", "U+10579", "U+1057A",
      "U+1057C", "U+1057D", "U+1057E", "U+1057F", "U+10580", "U+10581",
      "U+10582", "U+10583", "U+10584", "U+10585", "U+10586", "U+10587",
      "U+10588", "U+10589", "U+1058A", "U+1058C", "U+1058D", "U+1058E",
      "U+1058F", "U+10590", "U+10591", "U+10592", "U+10594", "U+10595",
      "U+10C80", "U+10C81", "U+10C82", "U+10C83", "U+10C84", "U+10C85",
      "U+10C86", "U+10C87", "U+10C88", "U+10C89", "U+10C8A", "U+10C8B",
      "U+10C8C", "U+10C8D", "U+10C8E", "U+10C8F", "U+10C90", "U+10C91",
      "U+10C92", "U+10C93", "U+10C94", "U+10C95", "U+10C96", "U+10C97",
      "U+10C98", "U+10C99", "U+10C9A", "U+10C9B", "U+10C9C", "U+10C9D",
      "U+10C9E", "U+10C9F", "U+10CA0", "U+10CA1", "U+10CA2", "U+10CA3",
      "U+10CA4", "U+10CA5", "U+10CA6", "U+10CA7", "U+10CA8", "U+10CA9",
      "U+10CAA", "U+10CAB", "U+10CAC", "U+10CAD", "U+10CAE", "U+10CAF",
      "U+10CB0", "U+10CB1", "U+10CB2", "U+118A0", "U+118A1", "U+118A2",
      "U+118A3", "U+118A4", "U+118A5", "U+118A6", "U+118A7", "U+118A8",
      "U+118A9", "U+118AA", "U+118AB", "U+118AC", "U+118AD", "U+118AE",
      "U+118AF", "U+118B0", "U+118B1", "U+118B2", "U+118B3", "U+118B4",
      "U+118B5", "U+118B6", "U+118B7", "U+118B8", "U+118B9", "U+118BA",
      "U+118BB", "U+118BC", "U+118BD", "U+118BE", "U+118BF", "U+16E40",
      "U+16E41", "U+16E42", "U+16E43", "U+16E44", "U+16E45", "U+16E46",
      "U+16E47", "U+16E48", "U+16E49", "U+16E4A", "U+16E4B", "U+16E4C",
      "U+16E4D", "U+16E4E", "U+16E4F", "U+16E50", "U+16E51", "U+16E52",
      "U+16E53", "U+16E54", "U+16E55", "U+16E56", "U+16E57", "U+16E58",
      "U+16E59", "U+16E5A", "U+16E5B", "U+16E5C", "U+16E5D", "U+16E5E",
      "U+16E5F", "U+1E900", "U+1E901", "U+1E902", "U+1E903", "U+1E904",
      "U+1E905", "U+1E906", "U+1E907", "U+1E908", "U+1E909", "U+1E90A",
      "U+1E90B", "U+1E90C", "U+1E90D", "U+1E90E", "U+1E90F", "U+1E910",
      "U+1E911", "U+1E912", "U+1E913", "U+1E914", "U+1E915", "U+1E916",
      "U+1E917", "U+1E918", "U+1E919", "U+1E91A", "U+1E91B", "U+1E91C",
      "U+1E91D", "U+1E91E", "U+1E91F", "U+1E920", "U+1E921" >>

\* what str.lower() makes of each of them: one or two characters
LowerMoreDst ==
    << <<"U+0101">>, <<"U+0103">>, <<"U+0105">>, <<"U+0107">>, <<"U+0109">>,
      <<"U+010B">>, <<"U+010D">>, <<"U+010F">>, <<"U+0111">>, <<"U+0113">>,
      <<"U+0115">>, <<"U+0117">>, <<"U+0119">>, <<"U+011B">>, <<"U+011D">>,
      <<"U+011F">>, <<"U+0121">>, <<"U+0123">>, <<"U+0125">>, <<"U+0127">>,
      <<"U+0129">>, <<"U+012B">>, <<"U+012D">>, <<"U+012F">>,
      <<"i", "U+0307">>, <<"U+0133">>, <<"U+0135">>, <<"U+0137">>,
      <<"U+013A">>, <<"U+013C">>, <<"U+013E">>, <<"U+0140">>, <<"U+0142">>,
      <<"U+0144">>, <<"U+0146">>, <<"U+0148">>, <<"U+014B">>, <<"U+014D">>,
      <<"U+014F">>, <<"U+0151">>, <<"U+0153">>, <<"U+0155">>, <<"U+0157">>,
      <<"U+0159">>, <<"U+015B">>, <<"U+015D">>, <<"U+015F">>, <<"U+0161">>,
      <<"U+0163">>, <<"U+0165">>, <<"U+0167">>, <<"U+0169">>, <<"U+016B">>,
      <<"U+016D">>, <<"U+016F">>, <<"U+0171">>, <<"U+0173">>, <<"U+0175">>,
      <<"U+0177">>, <<"ÿ">>, <<"U+017A">>, <<"U+017C">>, <<"U+017E">>,
      <<"U+0253">>, <<"U+0183">>, <<"U+0185">>, <<"U+0254">>, <<"U+0188">>,
      <<"U+0256">>, <<"U+0257">>, <<"U+018C">>, <<"U+01DD">>, <<"U+0259">>,
      <<"U+025B">>, <<"U+0192">>, <<"U+0260">>, <<"U+0263">>, <<"U+0269">>,
      <<"U+0268">>, <<"U+0199">>, <<"U+026F">>, <<"U+0272">>, <<"U+0275">>,
      <<"U+01A1">>, <<"U+01A3">>, <<"U+01A5">>, <<"U+0280">>, <<"U+01A8">>,
      <<"U+0283">>, <<"U+01AD">>, <<"U+0288">>, <<"U+01B0">>, <<"U+028A">>,
      <<"U+028B">>, <<"U+01B4">>, <<"U+01B6">>, <<"U+0292">>, <<"U+01B9">>,
      <<"U+01BD">>, <<"U+01C6">>, <<"U+01C6">>, <<"U+01C9">>, <<"U+01C9">>,
      <<"U+01CC">>, <<"U+01CC">>, <<"U+01CE">>, <<"U+01D0">>, <<"U+01D2">>,
      <<"U+01D4">>, <<"U+01D6">>, <<"U+01D8">>, <<"U+01DA">>, <<"U+01DC">>,
      <<"U+01DF">>, <<"U+01E1">>, <<"U+01E3">>, <<"U+01E5">>, <<"U+01E7">>,
      <<"U+01E9">>, <<"U+01EB">>, <<"U+01ED">>, <<"U+01EF">>, <<"U+01F3">>,
      <<"U+01F3">>, <<"U+01F5">>, <<"U+0195">>, <<"U+01BF">>, <<"U+01F9">>,
      <<"U+01FB">>, <<"U+01FD">>, <<"U+01FF">>, <<"U+0201">>, <<"U+0203">>,
      <<"U+0205">>, <<"U+0207">>, <<"U+0209">>, <<"U+020B">>, <<"U+020D">>,
      <<"U+020F">>, <<"U+0211">>, <<"U+0213">>, <<"U+0215">>, <<"U+0217">>,
      <<"U+0219">>, <<"U+021B">>, <<"U+021D">>, <<"U+021F">>, <<"U+019E">>,
      <<"U+0223">>, <<"U+0225">>, <<"U+0227">>, <<"U+0229">>, <<"U+022B">>,
      <<"U+022D">>, <<"U+022F">>, <<"U+0231">>, <<"U+0233">>, <<"U+2C65">>,
      <<"U+023C">>, <<"U+019A">>, <<"U+2C66">>, <<"U+0242">>, <<"U+0180">>,
      <<"U+0289">>, <<"U+028C">>, <<"U+0247">>, <<"U+0249">>, <<"U+024B">>,
      <<"U+024D">>, <<"U+024F">>, <<"U+0371">>, <<"U+0373">>, <<"U+0377">>,
      <<"U+03F3">>, <<"U+03AC">>, <<"U+03AD">>, <<"U+03AE">>, <<"U+03AF">>,
      <<"U+03CC">>, <<"U+03CD">>, <<"U+03CE">>, <<"U+03B1">>, <<"U+03B2">>,
      <<"U+03B3">>, <<"U+03B4">>, <<"U+03B5">>, <<"U+03B6">>, <<"U+03B7">>,
      <<"U+03B8">>, <<"U+03B9">>, <<"U+03BA">>, <<"U+03BB">>, <<"U+03BC">>,
      <<"U+03BD">>, <<"U+03BE">>, <<"U+03BF">>, <<"U+03C0">>, <<"U+03C1">>,
      <<"U+03C4">>, <<"U+03C5">>, <<"U+03C6">>, <<"U+03C7">>, <<"U+03C8">>,
      <<"U+03C9">>, <<"U+03CA">>, <<"U+03CB">>, <<"U+03D7">>, <<"U+03D9">>,
      <<"U+03DB">>, <<"U+03DD">>, <<"U+03DF">>, <<"U+03E1">>, <<"U+03E3">>,
      <<"U+03E5">>, <<"U+03E7">>, <<"U+03E9">>, <<"U+03EB">>, <<"U+03ED">>,
      <<"U+03EF">>, <<"U+03B8">>, <<"U+03F8">>, <<"U+03F2">>, <<"U+03FB">>,
      <<"U+037B">>, <<"U+037C">>, <<"U+037D">>, <<"U+0450">>, <<"U+0451">>,
      <<"U+0452">>, <<"U+0453">>, <<"U+0454">>, <<"U+0455">>, <<"U+0456">>,
      <<"U+0457">>, <<"U+0458">>, <<"U+0459">>, <<"U+045A">>, <<"U+045B">>,
      <<"U+045C">>, <<"U+045D">>, <<"U+045E">>, <<"U+045F">>, <<"U+0430">>,
      <<"U+0431">>, <<"U+0432">>, <<"U+0433">>, <<"U+0434">>, <<"U+0435">>,
      <<"U+0436">>, <<"U+0437">>, <<"U+0438">>, <<"U+0439">>, <<"U+043A">>,
      <<"U+043B">>, <<"U+043C">>, <<"U+043D">>, <<"U+043E">>, <<"U+043F">>,
      <<"U+0440">>, <<"U+0441">>, <<"U+0442">>, <<"U+0443">>, <<"U+0444">>,
      <<"U+0445">>, <<"U+0446">>, <<"U+0447">>, <<"U+0448">>, <<"U+0449">>,
      <<"U+044A">>, <<"U+044B">>, <<"U+044C">>, <<"U+044D">>, <<"U+044E">>,
      <<"U+044F">>, <<"U+0461">>, <<"U+0463">>, <<"U+0465">>, <<"U+0467">>,
      <<"U+0469">>, <<"U+046B">>, <<"U+046D">>, <<"U+046F">>, <<"U+0471">>,
      <<"U+0473">>, <<"U+0475">>, <<"U+0477">>, <<"U+0479">>, <<"U+047B">>,
      <<"U+047D">>, <<"U+047F">>, <<"U+0481">>, <<"U+048B">>, <<"U+048D">>,
      <<"U+048F">>, <<"U+0491">>, <<"U+0493">>, <<"U+0495">>, <<"U+0497">>,
      <<"U+0499">>, <<"U+049B">>, <<"U+049D">>, <<"U+049F">>, <<"U+04A1">>,
      <<"U+04A3">>, <<"U+04A5">>, <<"U+04A7">>, <<"U+04A9">>, <<"U+04AB">>,
      <<"U+04AD">>, <<"U+04AF">>, <<"U+04B1">>, <<"U+04B3">>, <<"U+04B5">>,
      <<"U+04B7">>, <<"U+04B9">>, <<"U+04BB">>, <<"U+04BD">>, <<"U+04BF">>,
      <<"U+04CF">>, <<"U+04C2">>, <<"U+04C4">>, <<"U+04C6">>, <<"U+04C8">>,
      <<"U+04CA">>, <<"U+04CC">>, <<"U+04CE">>, <<"U+04D1">>, <<"U+04D3">>,
      <<"U+04D5">>, <<"U+04D7">>, <<"U+04D9">>, <<"U+04DB">>, <<"U+04DD">>,
      <<"U+04DF">>, <<"U+04E1">>, <<"U+04E3">>, <<"U+04E5">>, <<"U+04E7">>,
      <<"U+04E9">>, <<"U+04EB">>, <<"U+04ED">>, <<"U+04EF">>, <<"U+04F1">>,
      <<"U+04F3">>, <<"U+04F5">>, <<"U+04F7">>, <<"U+04F9">>, <<"U+04FB">>,
      <<"U+04FD">>, <<"U+04FF">>, <<"U+0501">>, <<"U+0503">>, <<"U+0505">>,
      <<"U+0507">>, <<"U+0509">>, <<"U+050B">>, <<"U+050D">>, <<"U+050F">>,
      <<"U+0511">>, <<"U+0513">>, <<"U+0515">>, <<"U+0517">>, <<"U+0519">>,
      <<"U+051B">>, <<"U+051D">>, <<"U+051F">>, <<"U+0521">>, <<"U+0523">>,
      <<"U+0525">>, <<"U+0527">>, <<"U+0529">>, <<"U+052B">>, <<"U+052D">>,
      <<"U+052F">>, <<"U+0561">>, <<"U+0562">>, <<"U+0563">>, <<"U+0564">>,
      <<"U+0565">>, <<"U+0566">>, <<"U+0567">>, <<"U+0568">>, <<"U+0569">>,
      <<"U+056A">>, <<"U+056B">>, <<"U+056C">>, <<"U+056D">>, <<"U+056E">>,
      <<"U+056F">>, <<"U+0570">>, <<"U+0571">>, <<"U+0572">>, <<"U+0573">>,
      <<"U+0574">>, <<"U+0575">>, <<"U+0576">>, <<"U+0577">>, <<"U+0578">>,
      <<"U+0579">>, <<"U+057A">>, <<"U+057B">>, <<"U+057C">>, <<"U+057D">>,
      <<"U+057E">>, <<"U+057F">>, <<"U+0580">>, <<"U+0581">>, <<"U+0582">>,
      <<"U+0583">>, <<"U+0584">>, <<"U+0585">>, <<"U+0586">>, <<"U+2D00">>,
      <<"U+2D01">>, <<"U+2D02">>, <<"U+2D03">>, <<"U+2D04">>, <<"U+2D05">>,
      <<"U+2D06">>, <<"U+2D07">>, <<"U+2D08">>, <<"U+2D09">>, <<"U+2D0A">>,
      <<"U+2D0B">>, <<"U+2D0C">>, <<"U+2D0D">>, <<"U+2D0E">>, <<"U+2D0F">>,
      <<"U+2D10">>, <<"U+2D11">>, <<"U+2D12">>, <<"U+2D13">>, <<"U+2D14">>,
      <<"U+2D15">>, <<"U+2D16">>, <<"U+2D17">>, <<"U+2D18">>, <<"U+2D19">>,
      <<"U+2D1A">>, <<"U+2D1B">>, <<"U+2D1C">>, <<"U+2D1D">>, <<"U+2D1E">>,
      <<"U+2D1F">>, <<"U+2D20">>, <<"U+2D21">>, <<"U+2D22">>, <<"U+2D23">>,
      <<"U+2D24">>, <<"U+2D25">>, <<"U+2D27">>, <<"U+2D2D">>, <<"U+AB70">>,
      <<"U+AB71">>, <<"U+AB72">>, <<"U+AB73">>, <<"U+AB74">>, <<"U+AB75">>,
      <<"U+AB76">>, <<"U+AB77">>, <<"U+AB78">>, <<"U+AB79">>, <<"U+AB7A">>,
      <<"U+AB7B">>, <<"U+AB7C">>, <<"U+AB7D">>, <<"U+AB7E">>, <<"U+AB7F">>,
      <<"U+AB80">>, <<"U+AB81">>, <<"U+AB82">>, <<"U+AB83">>, <<"U+AB84">>,
      <<"U+AB85">>, <<"U+AB86">>, <<"U+AB87">>, <<"U+AB88">>, <<"U+AB89">>,
      <<"U+AB8A">>, <<"U+AB8B">>, <<"U+AB8C">>, <<"U+AB8D">>, <<"U+AB8E">>,
      <<"U+AB8F">>, <<"U+AB90">>, <<"U+AB91">>, <<"U+AB92">>, <<"U+AB93">>,
      <<"U+AB94">>, <<"U+AB95">>, <<"U+AB96">>, <<"U+AB97">>, <<"U+AB98">>,
      <<"U+AB99">>, <<"U+AB9A">>, <<"U+AB9B">>, <<"U+AB9C">>, <<"U+AB9D">>,
      <<"U+AB9E">>, <<"U+AB9F">>, <<"U+ABA0">>, <<"U+ABA1">>, <<"U+ABA2">>,
      <<"U+ABA3">>, <<"U+ABA4">>, <<"U+ABA5">>, <<"U+ABA6">>, <<"U+ABA7">>,
      <<"U+ABA8">>, <<"U+ABA9">>, <<"U+ABAA">>, <<"U+ABAB">>, <<"U+ABAC">>,
      <<"U+ABAD">>, <<"U+ABAE">>, <<"U+ABAF">>, <<"U+ABB0">>, <<"U+ABB1">>,
      <<"U+ABB2">>, <<"U+ABB3">>, <<"U+ABB4">>, <<"U+ABB5">>, <<"U+ABB6">>,
      <<"U+ABB7">>, <<"U+ABB8">>, <<"U+ABB9">>, <<"U+ABBA">>, <<"U+ABBB">>,
      <<"U+ABBC">>, <<"U+ABBD">>, <<"U+ABBE">>, <<"U+ABBF">>, <<"U+13F8">>,
      <<"U+13F9">>, <<"U+13FA">>, <<"U+13FB">>, <<"U+13FC">>, <<"U+13FD">>,
      <<"U+10D0">>, <<"U+10D1">>, <<"U+10D2">>, <<"U+10D3">>, <<"U+10D4">>,
      <<"U+10D5">>, <<"U+10D6">>, <<"U+10D7">>, <<"U+10D8">>, <<"U+10D9">>,
      <<"U+10DA">>, <<"U+10DB">>, <<"U+10DC">>, <<"U+10DD">>, <<"U+10DE">>,
      <<"U+10DF">>, <<"U+10E0">>, <<"U+10E1">>, <<"U+10E2">>, <<"U+10E3">>,
      <<"U+10E4">>, <<"U+10E5">>, <<"U+10E6">>, <<"U+10E7">>, <<"U+10E8">>,
      <<"U+10E9">>, <<"U+10EA">>, <<"U+10EB">>, <<"U+10EC">>, <<"U+10ED">>,
      <<"U+10EE">>, <<"U+10EF">>, <<"U+10F0">>, <<"U+10F1">>, <<"U+10F2">>,
      <<"U+10F3">>, <<"U+10F4">>, <<"U+10F5">>, <<"U+10F6">>, <<"U+10F7">>,
      <<"U+10F8">>, <<"U+10F9">>, <<"U+10FA">>, <<"U+10FD">>, <<"U+10FE">>,
      <<"U+10FF">>, <<"U+1E01">>, <<"U+1E03">>, <<"U+1E05">>, <<"U+1E07">>,
      <<"U+1E09">>, <<"U+1E0B">>, <<"U+1E0D">>, <<"U+1E0F">>, <<"U+1E11">>,
      <<"U+1E13">>, <<"U+1E15">>, <<"U+1E17">>, <<"U+1E19">>, <<"U+1E1B">>,
      <<"U+1E1D">>, <<"U+1E1F">>, <<"U+1E21">>, <<"U+1E23">>, <<"U+1E25">>,
      <<"U+1E27">>, <<"U+1E29">>, <<"U+1E2B">>, <<"U+1E2D">>, <<"U+1E2F">>,
      <<"U+1E31">>, <<"U+1E33">>, <<"U+1E35">>, <<"U+1E37">>, <<"U+1E39">>,
      <<"U+1E3B">>, <<"U+1E3D">>, <<"U+1E3F">>, <<"U+1E41">>, <<"U+1E43">>,
      <<"U+1E45">>, <<"U+1E47">>, <<"U+1E49">>, <<"U+1E4B">>, <<"U+1E4D">>,
      <<"U+1E4F">>, <<"U+1E51">>, <<"U+1E53">>, <<"U+1E55">>, <<"U+1E57">>,
      <<"U+1E59">>, <<"U+1E5B">>, <<"U+1E5D">>, <<"U+1E5F">>, <<"U+1E61">>,
      <<"U+1E63">>, <<"U+1E65">>, <<"U+1E67">>, <<"U+1E69">>, <<"U+1E6B">>,
      <<"U+1E6D">>, <<"U+1E6F">>, <<"U+1E71">>, <<"U+1E73">>, <<"U+1E75">>,
      <<"U+1E77">>, <<"U+1E79">>, <<"U+1E7B">>, <<"U+1E7D">>, <<"U+1E7F">>,
      <<"U+1E81">>, <<"U+1E83">>, <<"U+1E85">>, <<"U+1E87">>, <<"U+1E89">>,
      <<"U+1E8B">>, <<"U+1E8D">>, <<"U+1E8F">>, <<"U+1E91">>, <<"U+1E93">>,
      <<"U+1E95">>, <<"ß">>, <<"U+1EA1">>, <<"U+1EA3">>, <<"U+1EA5">>,
      <<"U+1EA7">>, <<"U+1EA9">>, <<"U+1EAB">>, <<"U+1EAD">>, <<"U+1EAF">>,
      <<"U+1EB1">>, <<"U+1EB3">>, <<"U+1EB5">>, <<"U+1EB7">>, <<"U+1EB9">>,
      <<"U+1EBB">>, <<"U+1EBD">>, <<"U+1EBF">>, <<"U+1EC1">>, <<"U+1EC3">>,
      <<"U+1EC5">>, <<"U+1EC7">>, <<"U+1EC9">>, <<"U+1ECB">>, <<"U+1ECD">>,
      <<"U+1ECF">>, <<"U+1ED1">>, <<"U+1ED3">>, <<"U+1ED5">>, <<"U+1ED7">>,
      <<"U+1ED9">>, <<"U+1EDB">>, <<"U+1EDD">>, <<"U+1EDF">>, <<"U+1EE1">>,
      <<"U+1EE3">>, <<"U+1EE5">>, <<"U+1EE7">>, <<"U+1EE9">>, <<"U+1EEB">>,
      <<"U+1EED">>, <<"U+1EEF">>, <<"U+1EF1">>, <<"U+1EF3">>, <<"U+1EF5">>,
      <<"U+1EF7">>, <<"U+1EF9">>, <<"U+1EFB">>, <<"U+1EFD">>, <<"U+1EFF">>,
      <<"U+1F00">>, <<"U+1F01">>, <<"U+1F02">>, <<"U+1F03">>, <<"U+1F04">>,
      <<"U+1F05">>, <<"U+1F06">>, <<"U+1F07">>, <<"U+1F10">>, <<"U+1F11">>,
      <<"U+1F12">>, <<"U+1F13">>, <<"U+1F14">>, <<"U+1F15">>, <<"U+1F20">>,
      <<"U+1F21">>, <<"U+1F22">>, <<"U+1F23">>, <<"U+1F24">>, <<"U+1F25">>,
      <<"U+1F26">>, <<"U+1F27">>, <<"U+1F30">>, <<"U+1F31">>, <<"U+1F32">>,
      <<"U+1F33">>, <<"U+1F34">>, <<"U+1F35">>, <<"U+1F36">>, <<"U+1F37">>,
      <<"U+1F40">>, <<"U+1F41">>, <<"U+1F42">>, <<"U+1F43">>, <<"U+1F44">>,
      <<"U+1F45">>, <<"U+1F51">>, <<"U+1F53">>, <<"U+1F55">>, <<"U+1F57">>,
      <<"U+1F60">>, <<"U+1F61">>, <<"U+1F62">>, <<"U+1F63">>, <<"U+1F64">>,
      <<"U+1F65">>, <<"U+1F66">>, <<"U+1F67">>, <<"U+1F80">>, <<"U+1F81">>,
      <<"U+1F82">>, <<"U+1F83">>, <<"U+1F84">>, <<"U+1F85">>, <<"U+1F86">>,
      <<"U+1F87">>, <<"U+1F90">>, <<"U+1F91">>, <<"U+1F92">>, <<"U+1F93">>,
      <<"U+1F94">>, <<"U+1F95">>, <<"U+1F96">>, <<"U+1F97">>, <<"U+1FA0">>,
      <<"U+1FA1">>, <<"U+1FA2">>, <<"U+1FA3">>, <<"U+1FA4">>, <<"U+1FA5">>,
      <<"U+1FA6">>, <<"U+1FA7">>, <<"U+1FB0">>, <<"U+1FB1">>, <<"U+1F70">>,
      <<"U+1F71">>, <<"U+1FB3">>, <<"U+1F72">>, <<"U+1F73">>, <<"U+1F74">>,
      <<"U+1F75">>, <<"U+1FC3">>, <<"U+1FD0">>, <<"U+1FD1">>, <<"U+1F76">>,
      <<"U+1F77">>, <<"U+1FE0">>, <<"U+1FE1">>, <<"U+1F7A">>, <<"U+1F7B">>,
      <<"U+1FE5">>, <<"U+1F78">>, <<"U+1F79">>, <<"U+1F7C">>, <<"U+1F7D">>,
      <<"U+1FF3">>, <<"U+03C9">>, <<"k">>, <<"å">>, <<"U+214E">>,
      <<"U+2170">>, <<"U+2171">>, <<"U+2172">>, <<"U+2173">>, <<"U+2174">>,
      <<"U+2175">>, <<"U+2176">>, <<"U+2177">>, <<"U+2178">>, <<"U+2179">>,
      <<"U+217A">>, <<"U+217B">>, <<"U+217C">>, <<"U+217D">>, <<"U+217E">>,
      <<"U+217F">>, <<"U+2184">>, <<"U+24D0">>, <<"U+24D1">>, <<"U+24D2">>,
      <<"U+24D3">>, <<"U+24D4">>, <<"U+24D5">>, <<"U+24D6">>, <<"U+24D7">>,
      <<"U+24D8">>, <<"U+24D9">>, <<"U+24DA">>, <<"U+24DB">>, <<"U+24DC">>,
      <<"U+24DD">>, <<"U+24DE">>, <<"U+24DF">>, <<"U+24E0">>, <<"U+24E1">>,
      <<"U+24E2">>, <<"U+24E3">>, <<"U+24E4">>, <<"U+24E5">>, <<"U+24E6">>,
      <<"U+24E7">>, <<"U+24E8">>, <<"U+24E9">>, <<"U+2C30">>, <<"U+2C31">>,
      <<"U+2C32">>, <<"U+2C33">>, <<"U+2C34">>, <<"U+2C35">>, <<"U+2C36">>,
      <<"U+2C37">>, <<"U+2C38">>, <<"U+2C39">>, <<"U+2C3A">>, <<"U+2C3B">>,
      <<"U+2C3C">>, <<"U+2C3D">>, <<"U+2C3E">>, <<"U+2C3F">>, <<"U+2C40">>,
      <<"U+2C41">>, <<"U+2C42">>, <<"U+2C43">>, <<"U+2C44">>, <<"U+2C45">>,
      <<"U+2C46">>, <<"U+2C47">>, <<"U+2C48">>, <<"U+2C49">>, <<"U+2C4A">>,
      <<"U+2C4B">>, <<"U+2C4C">>, <<"U+2C4D">>, <<"U+2C4E">>, <<"U+2C4F">>,
      <<"U+2C50">>, <<"U+2C51">>, <<"U+2C52">>, <<"U+2C53">>, <<"U+2C54">>,
      <<"U+2C55">>, <<"U+2C56">>, <<"U+2C57">>, <<"U+2C58">>, <<"U+2C59">>,
      <<"U+2C5A">>, <<"U+2C5B">>, <<"U+2C5C">>, <<"U+2C5D">>, <<"U+2C5E">>,
      <<"U+2C5F">>, <<"U+2C61">>, <<"U+026B">>, <<"U+1D7D">>, <<"U+027D">>,
      <<"U+2C68">>, <<"U+2C6A">>, <<"U+2C6C">>, <<"U+0251">>, <<"U+0271">>,
      <<"U+0250">>, <<"U+0252">>, <<"U+2C73">>, <<"U+2C76">>, <<"U+023F">>,
      <<"U+0240">>, <<"U+2C81">>, <<"U+2C83">>, <<"U+2C85">>, <<"U+2C87">>,
      <<"U+2C89">>, <<"U+2C8B">>, <<"U+2C8D">>, <<"U+2C8F">>, <<"U+2C91">>,
      <<"U+2C93">>, <<"U+2C95">>, <<"U+2C97">>, <<"U+2C99">>, <<"U+2C9B">>,
      <<"U+2C9D">>, <<"U+2C9F">>, <<"U+2CA1">>, <<"U+2CA3">>, <<"U+2CA5">>,
      <<"U+2CA7">>, <<"U+2CA9">>, <<"U+2CAB">>, <<"U+2CAD">>, <<"U+2CAF">>,
      <<"U+2CB1">>, <<"U+2CB3">>, <<"U+2CB5">>, <<"U+2CB7">>, <<"U+2CB9">>,
      <<"U+2CBB">>, <<"U+2CBD">>, <<"U+2CBF">>, <<"U+2CC1">>, <<"U+2CC3">>,
      <<"U+2CC5">>, <<"U+2CC7">>, <<"U+2CC9">>, <<"U+2CCB">>, <<"U+2CCD">>,
      <<"U+2CCF">>, <<"U+2CD1">>, <<"U+2CD3">>, <<"U+2CD5">>, <<"U+2CD7">>,
      <<"U+2CD9">>, <<"U+2CDB">>, <<"U+2CDD">>, <<"U+2CDF">>, <<"U+2CE1">>,
      <<"U+2CE3">>, <<"U+2CEC">>, <<"U+2CEE">>, <<"U+2CF3">>, <<"U+A641">>,
      <<"U+A643">>, <<"U+A645">>, <<"U+A647">>, <<"U+A649">>, <<"U+A64B">>,
      <<"U+A64D">>, <<"U+A64F">>, <<"U+A651">>, <<"U+A653">>, <<"U+A655">>,
      <<"U+A657">>, <<"U+A659">>, <<"U+A65B">>, <<"U+A65D">>, <<"U+A65F">>,
      <<"U+A661">>, <<"U+A663">>, <<"U+A665">>, <<"U+A667">>, <<"U+A669">>,
      <<"U+A66B">>, <<"U+A66D">>, <<"U+A681">>, <<"U+A683">>, <<"U+A685">>,
      <<"U+A687">>, <<"U+A689">>, <<"U+A68B">>, <<"U+A68D">>, <<"U+A68F">>,
      <<"U+A691">>, <<"U+A693">>, <<"U+A695">>, <<"U+A697">>, <<"U+A699">>,
      <<"U+A69B">>, <<"U+A723">>, <<"U+A725">>, <<"U+A727">>, <<"U+A729">>,
      <<"U+A72B">>, <<"U+A72D">>, <<"U+A72F">>, <<"U+A733">>, <<"U+A735">>,
      <<"U+A737">>, <<"U+A739">>, <<"U+A73B">>, <<"U+A73D">>, <<"U+A73F">>,
      <<"U+A741">>, <<"U+A743">>, <<"U+A745">>, <<"U+A747">>, <<"U+A749">>,
      <<"U+A74B">>, <<"U+A74D">>, <<"U+A74F">>, <<"U+A751">>, <<"U+A753">>,
      <<"U+A755">>, <<"U+A757">>, <<"U+A759">>, <<"U+A75B">>, <<"U+A75D">>,
      <<"U+A75F">>, <<"U+A761">>, <<"U+A763">>, <<"U+A765">>, <<"U+A767">>,
      <<"U+A769">>, <<"U+A76B">>, <<"U+A76D">>, <<"U+A76F">>, <<"U+A77A">>,
      <<"U+A77C">>, <<"U+1D79">>, <<"U+A77F">>, <<"U+A781">>, <<"U+A783">>,
      <<"U+A785">>, <<"U+A787">>, <<"U+A78C">>, <<"U+0265">>, <<"U+A791">>,
      <<"U+A793">>, <<"U+A797">>, <<"U+A799">>, <<"U+A79B">>, <<"U+A79D">>,
      <<"U+A79F">>, <<"U+A7A1">>, <<"U+A7A3">>, <<"U+A7A5">>, <<"U+A7A7">>,
      <<"U+A7A9">>, <<"U+0266">>, <<"U+025C">>, <<"U+0261">>, <<"U+026C">>,
      <<"U+026A">>, <<"U+029E">>, <<"U+0287">>, <<"U+029D">>, <<"U+AB53">>,
      <<"U+A7B5">>, <<"U+A7B7">>, <<"U+A7B9">>, <<"U+A7BB">>, <<"U+A7BD">>,
      <<"U+A7BF">>, <<"U+A7C1">>, <<"U+A7C3">>, <<"U+A794">>, <<"U+0282">>,
      <<"U+1D8E">>, <<"U+A7C8">>, <<"U+A7CA">>, <<"U+A7D1">>, <<"U+A7D7">>,
      <<"U+A7D9">>, <<"U+A7F6">>, <<"U+FF41">>, <<"U+FF42">>, <<"U+FF43">>,
      <<"U+FF44">>, <<"U+FF45">>, <<"U+FF46">>, <<"U+FF47">>, <<"U+FF48">>,
      <<"U+FF49">>, <<"U+FF4A">>, <<"U+FF4B">>, <<"U+FF4C">>, <<"U+FF4D">>,
      <<"U+FF4E">>, <<"U+FF4F">>, <<"U+FF50">>, <<"U+FF51">>, <<"U+FF52">>,
      <<"U+FF53">>, <<"U+FF54">>, <<"U+FF55">>, <<"U+FF56">>, <<"U+FF57">>,
      <<"U+FF58">>, <<"U+FF59">>, <<"U+FF5A">>, <<"U+10428">>, <<"U+10429">>,
      <<"U+1042A">>, <<"U+1042B">>, <<"U+1042C">>, <<"U+1042D">>,
      <<"U+1042E">>, <<"U+1042F">>, <<"U+10430">>, <<"U+10431">>,
      <<"U+10432">>, <<"U+10433">>, <<"U+10434">>, <<"U+10435">>,
      <<"U+10436">>, <<"U+10437">>, <<"U+10438">>, <<"U+10439">>,
      <<"U+1043A">>, <<"U+1043B">>, <<"U+1043C">>, <<"U+1043D">>,
      <<"U+1043E">>, <<"U+1043F">>, <<"U+10440">>, <<"U+10441">>,
      <<"U+10442">>, <<"U+10443">>, <<"U+10444">>, <<"U+10445">>,
      <<"U+10446">>, <<"U+10447">>, <<"U+10448">>, <<"U+10449">>,
      <<"U+1044A">>, <<"U+1044B">>, <<"U+1044C">>, <<"U+1044D">>,
      <<"U+1044E">>, <<"U+1044F">>, <<"U+104D8">>, <<"U+104D9">>,
      <<"U+104DA">>, <<"U+104DB">>, <<"U+104DC">>, <<"U+104DD">>,
      <<"U+104DE">>, <<"U+104DF">>, <<"U+104E0">>, <<"U+104E1">>,
      <<"U+104E2">>, <<"U+104E3">>, <<"U+104E4">>, <<"U+104E5">>,
      <<"U+104E6">>, <<"U+104E7">>, <<"U+104E8">>, <<"U+104E9">>,
      <<"U+104EA">>, <<"U+104EB">>, <<"U+104EC">>, <<"U+104ED">>,
      <<"U+104EE">>, <<"U+104EF">>, <<"U+104F0">>, <<"U+104F1">>,
      <<"U+104F2">>, <<"U+104F3">>, <<"U+104F4">>, <<"U+104F5">>,
      <<"U+104F6">>, <<"U+104F7">>, <<"U+104F8">>, <<"U+104F9">>,
      <<"U+104FA">>, <<"U+104FB">>, <<"U+10597">>, <<"U+10598">>,
      <<"U+10599">>, <<"U+1059A">>, <<"U+1059B">>, <<"U+1059C">>,
      <<"U+1059D">>, <<"U+1059E">>, <<"U+1059F">>, <<"U+105A0">>,
      <<"U+105A1">>, <<"U+105A3">>, <<"U+105A4">>, <<"U+105A5">>,
      <<"U+105A6">>, <<"U+105A7">>, <<"U+105A8">>, <<"U+105A9">>,
      <<"U+105AA">>, <<"U+105AB">>, <<"U+105AC">>, <<"U+105AD">>,
      <<"U+105AE">>, <<"U+105AF">>, <<"U+105B0">>, <<"U+105B1">>,
      <<"U+105B3">>, <<"U+105B4">>, <<"U+105B5">>, <<"U+105B6">>,
      <<"U+105B7">>, <<"U+105B8">>, <<"U+105B9">>, <<"U+105BB">>,
      <<"U+105BC">>, <<"U+10CC0">>, <<"U+10CC1">>, <<"U+10CC2">>,
      <<"U+10CC3">>, <<"U+10CC4">>, <<"U+10CC5">>, <<"U+10CC6">>,
      <<"U+10CC7">>, <<"U+10CC8">>, <<"U+10CC9">>, <<"U+10CCA">>,
      <<"U+10CCB">>, <<"U+10CCC">>, <<"U+10CCD">>, <<"U+10CCE">>,
      <<"U+10CCF">>, <<"U+10CD0">>, <<"U+10CD1">>, <<"U+10CD2">>,
      <<"U+10CD3">>, <<"U+10CD4">>, <<"U+10CD5">>, <<"U+10CD6">>,
      <<"U+10CD7">>, <<"U+10CD8">>, <<"U+10CD9">>, <<"U+10CDA">>,
      <<"U+10CDB">>, <<"U+10CDC">>, <<"U+10CDD">>, <<"U+10CDE">>,
      <<"U+10CDF">>, <<"U+10CE0">>, <<"U+10CE1">>, <<"U+10CE2">>,
      <<"U+10CE3">>, <<"U+10CE4">>, <<"U+10CE5">>, <<"U+10CE6">>,
      <<"U+10CE7">>, <<"U+10CE8">>, <<"U+10CE9">>, <<"U+10CEA">>,
      <<"U+10CEB">>, <<"U+10CEC">>, <<"U+10CED">>, <<"U+10CEE">>,
      <<"U+10CEF">>, <<"U+10CF0">>, <<"U+10CF1">>, <<"U+10CF2">>,
      <<"U+118C0">>, <<"U+118C1">>, <<"U+118C2">>, <<"U+118C3">>,
      <<"U+118C4">>, <<"U+118C5">>, <<"U+118C6">>, <<"U+118C7">>,
      <<"U+118C8">>, <<"U+118C9">>, <<"U+118CA">>, <<"U+118CB">>,
      <<"U+118CC">>, <<"U+118CD">>, <<"U+118CE">>, <<"U+118CF">>,
      <<"U+118D0">>, <<"U+118D1">>, <<"U+118D2">>, <<"U+118D3">>,
      <<"U+118D4">>, <<"U+118D5">>, <<"U+118D6">>, <<"U+118D7">>,
      <<"U+118D8">>, <<"U+118D9">>, <<"U+118DA">>, <<"U+118DB">>,
      <<"U+118DC">>, <<"U+118DD">>, <<"U+118DE">>, <<"U+118DF">>,
      <<"U+16E60">>, <<"U+16E61">>, <<"U+16E62">>, <<"U+16E63">>,
      <<"U+16E64">>, <<"U+16E65">>, <<"U+16E66">>, <<"U+16E67">>,
      <<"U+16E68">>, <<"U+16E69">>, <<"U+16E6A">>, <<"U+16E6B">>,
      <<"U+16E6C">>, <<"U+16E6D">>, <<"U+16E6E">>, <<"U+16E6F">>,
      <<"U+16E70">>, <<"U+16E71">>, <<"U+16E72">>, <<"U+16E73">>,
      <<"U+16E74">>, <<"U+16E75">>, <<"U+16E76">>, <<"U+16E77">>,
      <<"U+16E78">>, <<"U+16E79">>, <<"U+16E7A">>, <<"U+16E7B">>,
      <<"U+16E7C">>, <<"U+16E7D">>, <<"U+16E7E">>, <<"U+16E7F">>,
      <<"U+1E922">>, <<"U+1E923">>, <<"U+1E924">>, <<"U+1E925">>,
      <<"U+1E926">>, <<"U+1E927">>, <<"U+1E928">>, <<"U+1E929">>,
      <<"U+1E92A">>, <<"U+1E92B">>, <<"U+1E92C">>, <<"U+1E92D">>,
      <<"U+1E92E">>, <<"U+1E92F">>, <<"U+1E930">>, <<"U+1E931">>,
      <<"U+1E932">>, <<"U+1E933">>, <<"U+1E934">>, <<"U+1E935">>,
      <<"U+1E936">>, <<"U+1E937">>, <<"U+1E938">>, <<"U+1E939">>,
      <<"U+1E93A">>, <<"U+1E93B">>, <<"U+1E93C">>, <<"U+1E93D">>,
      <<"U+1E93E">>, <<"U+1E93F">>, <<"U+1E940">>, <<"U+1E941">>,
      <<"U+1E942">>, <<"U+1E943">> >>

\* the characters str.upper() changes, and what it changes each into
UpperSrc == AsciiLower \o Latin1Lower \o UpperMoreSrc

UpperDst ==
    [i \in 1..26 |-> <<AsciiUpper[i]>>] \o [i \in 1..30 |-> <<Latin1Upper[i]>>]
        \o UpperMoreDst

\* the characters str.lower() changes, and what it changes each into
LowerSrc == AsciiUpper \o Latin1Upper \o LowerMoreSrc

LowerDst ==
    [i \in 1..26 |-> <<AsciiLower[i]>>] \o [i \in 1..30 |-> <<Latin1Lower[i]>>]
        \o LowerMoreDst

UpperMap == [c \in {UpperSrc[i] : i \in 1..Len(UpperSrc)} |-> UpperDst[PosIn(c, UpperSrc)]]

LowerMap == [c \in {LowerSrc[i] : i \in 1..Len(LowerSrc)} |-> LowerDst[PosIn(c, LowerSrc)]]

UpperChars == DOMAIN UpperMap

LowerChars == DOMAIN LowerMap

\* str.upper() on one character: a string of one to three characters
UpperChar(c) == IF c \in UpperChars THEN UpperMap[c] ELSE <<c>>

\* str.lower() on one character other than capital sigma
LowerChar(c) == IF c \in LowerChars THEN LowerMap[c] ELSE <<c>>

\* the cased characters that are not case-ignorable
Cased ==
    { "A", "B", "C", "D", "E", "F", "G", "H", "I", "J", "K", "L", "M", "N",
      "O", "P", "Q", "R", "S", "T", "U", "V", "W", "X", "Y", "Z", "a", "b",
      "c", "d", "e", "f", "g", "h", "i", "j", "k", "l", "m", "n", "o", "p",
      "q", "r", "s", "t", "u", "v", "w", "x", "y", "z", "ª", "µ", "º", "À",
      "Á", "Â", "Ã", "Ä", "Å", "Æ", "Ç", "È", "É", "Ê", "Ë", "Ì", "Í", "Î",
      "Ï", "Ð", "Ñ", "Ò", "Ó", "Ô", "Õ", "Ö", "Ø", "Ù", "Ú", "Û", "Ü", "Ý",
      "Þ", "ß", "à", "á", "â", "ã", "ä", "å", "æ", "ç", "è", "é", "ê", "ë",
      "ì", "í", "î", "ï", "ð", "ñ", "ò", "ó", "ô", "õ", "ö", "ø", "ù", "ú",
      "û", "ü", "ý", "þ", "ÿ", "U+0100", "U+0101", "U+0102", "U+0103",
      "U+0104", "U+0105", "U+0106", "U+0107", "U+0108", "U+0109", "U+010A",
      "U+010B", "U+010C", "U+010D", "U+010E", "U+010F", "U+0110", "U+0111",
      "U+0112", "U+0113", "U+0114", "U+0115", "U+0116", "U+0117", "U+0118",
      "U+0119", "U+011A", "U+011B", "U+011C", "U+011D", "U+011E", "U+011F",
      "U+0120", "U+0121", "U+0122", "U+0123", "U+0124", "U+0125", "U+0126",
      "U+0127", "U+0128", "U+0129", "U+012A", "U+012B", "U+012C", "U+012D",
      "U+012E", "U+012F", "U+0130", "U+0131", "U+0132", "U+0133", "U+0134",
      "U+0135", "U+0136", "U+0137", "U+0138", "U+0139", "U+013A", "U+013B",
      "U+013C", "U+013D", "U+013E", "U+013F", "U+0140", "U+0141", "U+0142",
      "U+0143", "U+0144", "U+0145", "U+0146", "U+0147", "U+0148", "U+0149",
      "U+014A", "U+014B", "U+014C", "U+014D", "U+014E", "U+014F", "U+0150",
      "U+0151", "U+0152", "U+0153", "U+0154", "U+0155", "U+0156", "U+0157",
      "U+0158", "U+0159", "U+015A", "U+015B", "U+015C", "U+015D", "U+015E",
      "U+015F", "U+0160", "U+0161", "U+0162", "U+0163", "U+0164", "U+0165",
      "U+0166", "U+0167", "U+0168", "U+0169", "U+016A", "U+016B", "U+016C",
      "U+016D", "U+016E", "U+016F", "U+0170", "U+0171", "U+0172", "U+0173",
      "U+0174", "U+0175", "U+0176", "U+0177", "U+0178", "U+0179", "U+017A",
      "U+017B", "U+017C", "U+017D", "U+017E", "U+017F", "U+0180", "U+0181",
      "U+0182", "U+0183", "U+0184", "U+0185", "U+0186", "U+0187", "U+0188",
      "U+0189", "U+018A", "U+018B", "U+018C", "U+018D", "U+018E", "U+018F",
      "U+0190", "U+0191", "U+0192", "U+0193", "U+0194", "U+0195", "U+0196",
      "U+0197", "U+0198", "U+0199", "U+019A", "U+019B", "U+019C", "U+019D",
      "U+019E", "U+019F", "U+01A0", "U+01A1", "U+01A2", "U+01A3", "U+01A4",
      "U+01A5", "U+01A6", "U+01A7", "U+01A8", "U+01A9", "U+01AA", "U+01AB",
      "U+01AC", "U+01AD", "U+01AE", "U+01AF", "U+01B0", "U+01B1", "U+01B2",
      "U+01B3", "U+01B4", "U+01B5", "U+01B6", "U+01B7", "U+01B8", "U+01B9",
      "U+01BA", "U+01BC", "U+01BD", "U+01BE", "U+01BF", "U+01C4", "U+01C5",
      "U+01C6", "U+01C7", "U+01C8", "U+01C9", "U+01CA", "U+01CB", "U+01CC",
      "U+01CD", "U+01CE", "U+01CF", "U+01D0", "U+01D1", "U+01D2", "U+01D3",
      "U+01D4", "U+01D5", "U+01D6", "U+01D7", "U+01D8", "U+01D9", "U+01DA",
      "U+01DB", "U+01DC", "U+01DD", "U+01DE", "U+01DF", "U+01E0", "U+01E1",
      "U+01E2", "U+01E3", "U+01E4", "U+01E5", "U+01E6", "U+01E7", "U+01E8",
      "U+01E9", "U+01EA", "U+01EB", "U+01EC", "U+01ED", "U+01EE", "U+01EF",
      "U+01F0", "U+01F1", "U+01F2", "U+01F3", "U+01F4", "U+01F5", "U+01F6",
      "U+01F7", "U+01F8", "U+01F9", "U+01FA", "U+01FB", "U+01FC", "U+01FD",
      "U+01FE", "U+01FF", "U+0200", "U+0201", "U+0202", "U+0203", "U+0204",
      "U+0205", "U+0206", "U+0207", "U+0208", "U+0209", "U+020A", "U+020B",
      "U+020C", "U+020D", "U+020E", "U+020F", "U+0210", "U+0211", "U+0212",
      "U+0213", "U+0214", "U+0215", "U+0216", "U+0217", "U+0218", "U+0219",
      "U+021A", "U+021B", "U+021C", "U+021D", "U+021E", "U+021F", "U+0220",
      "U+0221", "U+0222", "U+0223", "U+0224", "U+0225", "U+0226", "U+0227",
      "U+0228", "U+0229", "U+022A", "U+022B", "U+022C", "U+022D", "U+022E",
      "U+022F", "U+0230", "U+0231", "U+0232", "U+0233", "U+0234", "U+0235",
      "U+0236", "U+0237", "U+0238", "U+0239", "U+023A", "U+023B", "U+023C",
      "U+023D", "U+023E", "U+023F", "U+0240", "U+0241", "U+0242", "U+0243",
      "U+0244", "U+0245", "U+0246", "U+0247", "U+0248", "U+0249", "U+024A",
      "U+024B", "U+024C", "U+024D", "U+024E", "U+024F", "U+0250", "U+0251",
      "U+0252", "U+0253", "U+0254", "U+0255", "U+0256", "U+0257", "U+0258",
      "U+0259", "U+025A", "U+025B", "U+025C", "U+025D", "U+025E", "U+025F",
      "U+0260", "U+0261", "U+0262", "U+0263", "U+0264", "U+0265", "U+0266",
      "U+0267", "U+0268", "U+0269", "U+026A", "U+026B", "U+026C", "U+026D",
      "U+026E", "U+026F", "U+0270", "U+0271", "U+0272", "U+0273", "U+0274",
      "U+0275", "U+0276", "U+0277", "U+0278", "U+0279", "U+027A", "U+027B",
      "U+027C", "U+027D", "U+027E", "U+027F", "U+0280", "U+0281", "U+0282",
      "U+0283", "U+0284", "U+0285", "U+0286", "U+0287", "U+0288", "U+0289",
      "U+028A", "U+028B", "U+028C", "U+028D", "U+028E", "U+028F", "U+0290",
      "U+0291", "U+0292", "U+0293", "U+0295", "U+0296", "U+0297", "U+0298",
      "U+0299", "U+029A", "U+029B", "U+029C", "U+029D", "U+029E", "U+029F",
      "U+02A0", "U+02A1", "U+02A2", "U+02A3", "U+02A4", "U+02A5", "U+02A6",
      "U+02A7", "U+02A8", "U+02A9", "U+02AA", "U+02AB", "U+02AC", "U+02AD",
      "U+02AE", "U+02AF", "U+0370", "U+0371", "U+0372", "U+0373", "U+0376",
      "U+0377", "U+037B", "U+037C", "U+037D", "U+037F", "U+0386", "U+0388",
      "U+0389", "U+038A", "U+038C", "U+038E", "U+038F", "U+0390", "U+0391",
      "U+0392", "U+0393", "U+0394", "U+0395", "U+0396", "U+0397", "U+0398",
      "U+0399", "U+039A", "U+039B", "U+039C", "U+039D", "U+039E", "U+039F",
      "U+03A0", "U+03A1", "U+03A3", "U+03A4", "U+03A5", "U+03A6", "U+03A7",
      "U+03A8", "U+03A9", "U+03AA", "U+03AB", "U+03AC", "U+03AD", "U+03AE",
      "U+03AF", "U+03B0", "U+03B1", "U+03B2", "U+03B3", "U+03B4", "U+03B5",
      "U+03B6", "U+03B7", "U+03B8", "U+03B9", "U+03BA", "U+03BB", "U+03BC",
      "U+03BD", "U+03BE", "U+03BF", "U+03C0", "U+03C1", "U+03C2", "U+03C3",
      "U+03C4", "U+03C5", "U+03C6", "U+03C7", "U+03C8", "U+03C9", "U+03CA",
      "U+03CB", "U+03CC", "U+03CD", "U+03CE", "U+03CF", "U+03D0", "U+03D1",
      "U+03D2", "U+03D3", "U+03D4", "U+03D5", "U+03D6", "U+03D7", "U+03D8",
      "U+03D9", "U+03DA", "U+03DB", "U+03DC", "U+03DD", "U+03DE", "U+03DF",
      "U+03E0", "U+03E1", "U+03E2", "U+03E3", "U+03E4", "U+03E5", "U+03E6",
      "U+03E7", "U+03E8", "U+03E9", "U+03EA", "U+03EB", "U+03EC", "U+03ED",
      "U+03EE", "U+03EF", "U+03F0", "U+03F1", "U+03F2", "U+03F3", "U+03F4",
      "U+03F5", "U+03F7", "U+03F8", "U+03F9", "U+03FA", "U+03FB", "U+03FC",
      "U+03FD", "U+03FE", "U+03FF", "U+0400", "U+0401", "U+0402", "U+0403",
      "U+0404", "U+0405", "U+0406", "U+0407", "U+0408", "U+0409", "U+040A",
      "U+040B", "U+040C", "U+040D", "U+040E", "U+040F", "U+0410", "U+0411",
      "U+0412", "U+0413", "U+0414", "U+0415", "U+0416", "U+0417", "U+0418",
      "U+0419", "U+041A", "U+041B", "U+041C", "U+041D", "U+041E", "U+041F",
      "U+0420", "U+0421", "U+0422", "U+0423", "U+0424", "U+0425", "U+0426",
      "U+0427", "U+0428", "U+0429", "U+042A", "U+042B", "U+042C", "U+042D",
      "U+042E", "U+042F", "U+0430", "U+0431", "U+0432", "U+0433", "U+0434",
      "U+0435", "U+0436", "U+0437", "U+0438", "U+0439", "U+043A", "U+043B",
      "U+043C", "U+043D", "U+043E", "U+043F", "U+0440", "U+0441", "U+0442",
      "U+0443", "U+0444", "U+0445", "U+0446", "U+0447", "U+0448", "U+0449",
      "U+044A", "U+044B", "U+044C", "U+044D", "U+044E", "U+044F", "U+0450",
      "U+0451", "U+0452", "U+0453", "U+0454", "U+0455", "U+0456", "U+0457",
      "U+0458", "U+0459", "U+045A", "U+045B", "U+045C", "U+045D", "U+045E",
      "U+045F", "U+0460", "U+0461", "U+0462", "U+0463", "U+0464", "U+0465",
      "U+0466", "U+0467", "U+0468", "U+0469", "U+046A", "U+046B", "U+046C",
      "U+046D", "U+046E", "U+046F", "U+0470", "U+0471", "U+0472", "U+0473",
      "U+0474", "U+0475", "U+0476", "U+0477", "U+0478", "U+0479", "U+047A",
      "U+047B", "U+047C", "U+047D", "U+047E", "U+047F", "U+0480", "U+0481",
      "U+048A", "U+048B", "U+048C", "U+048D", "U+048E", "U+048F", "U+0490",
      "U+0491", "U+0492", "U+0493", "U+0494", "U+0495", "U+0496", "U+0497",
      "U+0498", "U+0499", "U+049A", "U+049B", "U+049C", "U+049D", "U+049E",
      "U+049F", "U+04A0", "U+04A1", "U+04A2", "U+04A3", "U+04A4", "U+04A5",
      "U+04A6", "U+04A7", "U+04A8", "U+04A9", "U+04AA", "U+04AB", "U+04AC",
      "U+04AD", "U+04AE", "U+04AF", "U+04B0", "U+04B1", "U+04B2", "U+04B3",
      "U+04B4", "U+04B5", "U+04B6", "U+04B7", "U+04B8", "U+04B9", "U+04BA",
      "U+04BB", "U+04BC", "U+04BD", "U+04BE", "U+04BF", "U+04C0", "U+04C1",
      "U+04C2", "U+04C3", "U+04C4", "U+04C5", "U+04C6", "U+04C7", "U+04C8",
      "U+04C9", "U+04CA", "U+04CB", "U+04CC", "U+04CD", "U+04CE", "U+04CF",
      "U+04D0", "U+04D1", "U+04D2", "U+04D3", "U+04D4", "U+04D5", "U+04D6",
      "U+04D7", "U+04D8", "U+04D9", "U+04DA", "U+04DB", "U+04DC", "U+04DD",
      "U+04DE", "U+04DF", "U+04E0", "U+04E1", "U+04E2", "U+04E3", "U+04E4",
      "U+04E5", "U+04E6", "U+04E7", "U+04E8", "U+04E9", "U+04EA", "U+04EB",
      "U+04EC", "U+04ED", "U+04EE", "U+04EF", "U+04F0", "U+04F1", "U+04F2",
      "U+04F3", "U+04F4", "U+04F5", "U+04F6", "U+04F7", "U+04F8", "U+04F9",
      "U+04FA", "U+04FB", "U+04FC", "U+04FD", "U+04FE", "U+04FF", "U+0500",
      "U+0501", "U+0502", "U+0503", "U+0504", "U+0505", "U+0506", "U+0507",
      "U+0508", "U+0509", "U+050A", "U+050B", "U+050C", "U+050D", "U+050E",
      "U+050F", "U+0510", "U+0511", "U+0512", "U+0513", "U+0514", "U+0515",
      "U+0516", "U+0517", "U+0518", "U+0519", "U+051A", "U+051B", "U+051C",
      "U+051D", "U+051E", "U+051F", "U+0520", "U+0521", "U+0522", "U+0523",
      "U+0524", "U+0525", "U+0526", "U+0527", "U+0528", "U+0529", "U+052A",
      "U+052B", "U+052C", "U+052D", "U+052E", "U+052F", "U+0531", "U+0532",
      "U+0533", "U+0534", "U+0535", "U+0536", "U+0537", "U+0538", "U+0539",
      "U+053A", "U+053B", "U+053C", "U+053D", "U+053E", "U+053F", "U+0540",
      "U+0541", "U+0542", "U+0543", "U+0544", "U+0545", "U+0546", "U+0547",
      "U+0548", "U+0549", "U+054A", "U+054B", "U+054C", "U+054D", "U+054E",
      "U+054F", "U+0550", "U+0551", "U+0552", "U+0553", "U+0554", "U+0555",
      "U+0556", "U+0560", "U+0561", "U+0562", "U+0563", "U+0564", "U+0565",
      "U+0566", "U+0567", "U+0568", "U+0569", "U+056A", "U+056B", "U+056C",
      "U+056D", "U+056E", "U+056F", "U+0570", "U+0571", "U+0572", "U+0573",
      "U+0574", "U+0575", "U+0576", "U+0577", "U+0578", "U+0579", "U+057A",
      "U+057B", "U+057C", "U+057D", "U+057E", "U+057F", "U+0580", "U+0581",
      "U+0582", "U+0583", "U+0584", "U+0585", "U+0586", "U+0587", "U+0588",
      "U+10A0", "U+10A1", "U+10A2", "U+10A3", "U+10A4", "U+10A5", "U+10A6",
      "U+10A7", "U+10A8", "U+10A9", "U+10AA", "U+10AB", "U+10AC", "U+10AD",
      "U+10AE", "U+10AF", "U+10B0", "U+10B1", "U+10B2", "U+10B3", "U+10B4",
      "U+10B5", "U+10B6", "U+10B7", "U+10B8", "U+10B9", "U+10BA", "U+10BB",
      "U+10BC", "U+10BD", "U+10BE", "U+10BF", "U+10C0", "U+10C1", "U+10C2",
      "U+10C3", "U+10C4", "U+10C5", "U+10C7", "U+10CD", "U+10D0", "U+10D1",
      "U+10D2", "U+10D3", "U+10D4", "U+10D5", "U+10D6", "U+10D7", "U+10D8",
      "U+10D9", "U+10DA", "U+10DB", "U+10DC", "U+10DD", "U+10DE", "U+10DF",
      "U+10E0", "U+10E1", "U+10E2", "U+10E3", "U+10E4", "U+10E5", "U+10E6",
      "U+10E7", "U+10E8", "U+10E9", "U+10EA", "U+10EB", "U+10EC", "U+10ED",
      "U+10EE", "U+10EF", "U+10F0", "U+10F1", "U+10F2", "U+10F3", "U+10F4",
      "U+10F5", "U+10F6", "U+10F7", "U+10F8", "U+10F9", "U+10FA", "U+10FD",
      "U+10FE", "U+10FF", "U+13A0", "U+13A1", "U+13A2", "U+13A3", "U+13A4",
      "U+13A5", "U+13A6", "U+13A7", "U+13A8", "U+13A9", "U+13AA", "U+13AB",
      "U+13AC", "U+13AD", "U+13AE", "U+13AF", "U+13B0", "U+13B1", "U+13B2",
      "U+13B3", "U+13B4", "U+13B5", "U+13B6", "U+13B7", "U+13B8", "U+13B9",
      "U+13BA", "U+13BB", "U+13BC", "U+13BD", "U+13BE", "U+13BF", "U+13C0",
      "U+13C1", "U+13C2", "U+13C3", "U+13C4", "U+13C5", "U+13C6", "U+13C7",
      "U+13C8", "U+13C9", "U+13CA", "U+13CB", "U+13CC", "U+13CD", "U+13CE",
      "U+13CF", "U+13D0", "U+13D1", "U+13D2", "U+13D3", "U+13D4", "U+13D5",
      "U+13D6", "U+13D7", "U+13D8", "U+13D9", "U+13DA", "U+13DB", "U+13DC",
      "U+13DD", "U+13DE", "U+13DF", "U+13E0", "U+13E1", "U+13E2", "U+13E3",
      "U+13E4", "U+13E5", "U+13E6", "U+13E7", "U+13E8", "U+13E9", "U+13EA",
      "U+13EB", "U+13EC", "U+13ED", "U+13EE", "U+13EF", "U+13F0", "U+13F1",
      "U+13F2", "U+13F3", "U+13F4", "U+13F5", "U+13F8", "U+13F9", "U+13FA",
      "U+13FB", "U+13FC", "U+13FD", "U+1C80", "U+1C81", "U+1C82", "U+1C83",
      "U+1C84", "U+1C85", "U+1C86", "U+1C87", "U+1C88", "U+1C90", "U+1C91",
      "U+1C92", "U+1C93", "U+1C94", "U+1C95", "U+1C96", "U+1C97", "U+1C98",
      "U+1C99", "U+1C9A", "U+1C9B", "U+1C9C", "U+1C9D", "U+1C9E", "U+1C9F",
      "U+1CA0", "U+1CA1", "U+1CA2", "U+1CA3", "U+1CA4", "U+1CA5", "U+1CA6",
      "U+1CA7", "U+1CA8", "U+1CA9", "U+1CAA", "U+1CAB", "U+1CAC", "U+1CAD",
      "U+1CAE", "U+1CAF", "U+1CB0", "U+1CB1", "U+1CB2", "U+1CB3", "U+1CB4",
      "U+1CB5", "U+1CB6", "U+1CB7", "U+1CB8", "U+1CB9", "U+1CBA", "U+1CBD",
      "U+1CBE", "U+1CBF", "U+1D00", "U+1D01", "U+1D02", "U+1D03", "U+1D04",
      "U+1D05", "U+1D06", "U+1D07", "U+1D08", "U+1D09", "U+1D0A", "U+1D0B",
      "U+1D0C", "U+1D0D", "U+1D0E", "U+1D0F", "U+1D10", "U+1D11", "U+1D12",
      "U+1D13", "U+1D14", "U+1D15", "U+1D16", "U+1D17", "U+1D18", "U+1D19",
      "U+1D1A", "U+1D1B", "U+1D1C", "U+1D1D", "U+1D1E", "U+1D1F", "U+1D20",
      "U+1D21", "U+1D22", "U+1D23", "U+1D24", "U+1D25", "U+1D26", "U+1D27",
      "U+1D28", "U+1D29", "U+1D2A", "U+1D2B", "U+1D6B", "U+1D6C", "U+1D6D",
      "U+1D6E", "U+1D6F", "U+1D70", "U+1D71", "U+1D72", "U+1D73", "U+1D74",
      "U+1D75", "U+1D76", "U+1D77", "U+1D79", "U+1D7A", "U+1D7B", "U+1D7C",
      "U+1D7D", "U+1D7E", "U+1D7F", "U+1D80", "U+1D81", "U+1D82", "U+1D83",
      "U+1D84", "U+1D85", "U+1D86", "U+1D87", "U+1D88", "U+1D89", "U+1D8A",
      "U+1D8B", "U+1D8C", "U+1D8D", "U+1D8E", "U+1D8F", "U+1D90", "U+1D91",
      "U+1D92", "U+1D93", "U+1D94", "U+1D95", "U+1D96", "U+1D97", "U+1D98",
      "U+1D99", "U+1D9A", "U+1E00", "U+1E01", "U+1E02", "U+1E03", "U+1E04",
      "U+1E05", "U+1E06", "U+1E07", "U+1E08", "U+1E09", "U+1E0A", "U+1E0B",
      "U+1E0C", "U+1E0D", "U+1E0E", "U+1E0F", "U+1E10", "U+1E11", "U+1E12",
      "U+1E13", "U+1E14", "U+1E15", "U+1E16", "U+1E17", "U+1E18", "U+1E19",
      "U+1E1A", "U+1E1B", "U+1E1C", "U+1E1D", "U+1E1E", "U+1E1F", "U+1E20",
      "U+1E21", "U+1E22", "U+1E23", "U+1E24", "U+1E25", "U+1E26", "U+1E27",
      "U+1E28", "U+1E29", "U+1E2A", "U+1E2B", "U+1E2C", "U+1E2D", "U+1E2E",
      "U+1E2F", "U+1E30", "U+1E31", "U+1E32", "U+1E33", "U+1E34", "U+1E35",
      "U+1E36", "U+1E37", "U+1E38", "U+1E39", "U+1E3A", "U+1E3B", "U+1E3C",
      "U+1E3D", "U+1E3E", "U+1E3F", "U+1E40", "U+1E41", "U+1E42", "U+1E43",
      "U+1E44", "U+1E45", "U+1E46", "U+1E47", "U+1E48", "U+1E49", "U+1E4A",
      "U+1E4B", "U+1E4C", "U+1E4D", "U+1E4E", "U+1E4F", "U+1E50", "U+1E51",
      "U+1E52", "U+1E53", "U+1E54", "U+1E55", "U+1E56", "U+1E57", "U+1E58",
      "U+1E59", "U+1E5A", "U+1E5B", "U+1E5C", "U+1E5D", "U+1E5E", "U+1E5F",
      "U+1E60", "U+1E61", "U+1E62", "U+1E63", "U+1E64", "U+1E65", "U+1E66",
      "U+1E67", "U+1E68", "U+1E69", "U+1E6A", "U+1E6B", "U+1E6C", "U+1E6D",
      "U+1E6E", "U+1E6F", "U+1E70", "U+1E71", "U+1E72", "U+1E73", "U+1E74",
      "U+1E75", "U+1E76", "U+1E77", "U+1E78", "U+1E79", "U+1E7A", "U+1E7B",
      "U+1E7C", "U+1E7D", "U+1E7E", "U+1E7F", "U+1E80", "U+1E81", "U+1E82",
      "U+1E83", "U+1E84", "U+1E85", "U+1E86", "U+1E87", "U+1E88", "U+1E89",
      "U+1E8A", "U+1E8B", "U+1E8C", "U+1E8D", "U+1E8E", "U+1E8F", "U+1E90",
      "U+1E91", "U+1E92", "U+1E93", "U+1E94", "U+1E95", "U+1E96", "U+1E97",
      "U+1E98", "U+1E99", "U+1E9A", "U+1E9B", "U+1E9C", "U+1E9D", "U+1E9E",
      "U+1E9F", "U+1EA0", "U+1EA1", "U+1EA2", "U+1EA3", "U+1EA4", "U+1EA5",
      "U+1EA6", "U+1EA7", "U+1EA8", "U+1EA9", "U+1EAA", "U+1EAB", "U+1EAC",
      "U+1EAD", "U+1EAE", "U+1EAF", "U+1EB0", "U+1EB1", "U+1EB2", "U+1EB3",
      "U+1EB4", "U+1EB5", "U+1EB6", "U+1EB7", "U+1EB8", "U+1EB9", "U+1EBA",
      "U+1EBB", "U+1EBC", "U+1EBD", "U+1EBE", "U+1EBF", "U+1EC0", "U+1EC1",
      "U+1EC2", "U+1EC3", "U+1EC4", "U+1EC5", "U+1EC6", "U+1EC7", "U+1EC8",
      "U+1EC9", "U+1ECA", "U+1ECB", "U+1ECC", "U+1ECD", "U+1ECE", "U+1ECF",
      "U+1ED0", "U+1ED1", "U+1ED2", "U+1ED3", "U+1ED4", "U+1ED5", "U+1ED6",
      "U+1ED7", "U+1ED8", "U+1ED9", "U+1EDA", "U+1EDB", "U+1EDC", "U+1EDD",
      "U+1EDE", "U+1EDF", "U+1EE0", "U+1EE1", "U+1EE2", "U+1EE3", "U+1EE4",
      "U+1EE5", "U+1EE6", "U+1EE7", "U+1EE8", "U+1EE9", "U+1EEA", "U+1EEB",
      "U+1EEC", "U+1EED", "U+1EEE", "U+1EEF", "U+1EF0", "U+1EF1", "U+1EF2",
      "U+1EF3", "U+1EF4", "U+1EF5", "U+1EF6", "U+1EF7", "U+1EF8", "U+1EF9",
      "U+1EFA", "U+1EFB", "U+1EFC", "U+1EFD", "U+1EFE", "U+1EFF", "U+1F00",
      "U+1F01", "U+1F02", "U+1F03", "U+1F04", "U+1F05", "U+1F06", "U+1F07",
      "U+1F08", "U+1F09", "U+1F0A", "U+1F0B", "U+1F0C", "U+1F0D", "U+1F0E",
      "U+1F0F", "U+1F10", "U+1F11", "U+1F12", "U+1F13", "U+1F14", "U+1F15",
      "U+1F18", "U+1F19", "U+1F1A", "U+1F1B", "U+1F1C", "U+1F1D", "U+1F20",
      "U+1F21", "U+1F22", "U+1F23", "U+1F24", "U+1F25", "U+1F26", "U+1F27",
      "U+1F28", "U+1F29", "U+1F2A", "U+1F2B", "U+1F2C", "U+1F2D", "U+1F2E",
      "U+1F2F", "U+1F30", "U+1F31", "U+1F32", "U+1F33", "U+1F34", "U+1F35",
      "U+1F36", "U+1F37", "U+1F38", "U+1F39", "U+1F3A", "U+1F3B", "U+1F3C",
      "U+1F3D", "U+1F3E", "U+1F3F", "U+1F40", "U+1F41", "U+1F42", "U+1F43",
      "U+1F44", "U+1F45", "U+1F48", "U+1F49", "U+1F4A", "U+1F4B", "U+1F4C",
      "U+1F4D", "U+1F50", "U+1F51", "U+1F52", "U+1F53", "U+1F54", "U+1F55",
      "U+1F56", "U+1F57", "U+1F59", "U+1F5B", "U+1F5D", "U+1F5F", "U+1F60",
      "U+1F61", "U+1F62", "U+1F63", "U+1F64", "U+1F65", "U+1F66", "U+1F67",
      "U+1F68", "U+1F69", "U+1F6A", "U+1F6B", "U+1F6C", "U+1F6D", "U+1F6E",
      "U+1F6F", "U+1F70", "U+1F71", "U+1F72", "U+1F73", "U+1F74", "U+1F75",
      "U+1F76", "U+1F77", "U+1F78", "U+1F79", "U+1F7A", "U+1F7B", "U+1F7C",
      "U+1F7D", "U+1F80", "U+1F81", "U+1F82", "U+1F83", "U+1F84", "U+1F85",
      "U+1F86", "U+1F87", "U+1F88", "U+1F89", "U+1F8A", "U+1F8B", "U+1F8C",
      "U+1F8D", "U+1F8E", "U+1F8F", "U+1F90", "U+1F91", "U+1F92", "U+1F93",
      "U+1F94", "U+1F95", "U+1F96", "U+1F97", "U+1F98", "U+1F99", "U+1F9A",
      "U+1F9B", "U+1F9C", "U+1F9D", "U+1F9E", "U+1F9F", "U+1FA0", "U+1FA1",
      "U+1FA2", "U+1FA3", "U+1FA4", "U+1FA5", "U+1FA6", "U+1FA7", "U+1FA8",
      "U+1FA9", "U+1FAA", "U+1FAB", "U+1FAC", "U+1FAD", "U+1FAE", "U+1FAF",
      "U+1FB0", "U+1FB1", "U+1FB2", "U+1FB3", "U+1FB4", "U+1FB6", "U+1FB7",
      "U+1FB8", "U+1FB9", "U+1FBA", "U+1FBB", "U+1FBC", "U+1FBE", "U+1FC2",
      "U+1FC3", "U+1FC4", "U+1FC6", "U+1FC7", "U+1FC8", "U+1FC9", "U+1FCA",
      "U+1FCB", "U+1FCC", "U+1FD0", "U+1FD1", "U+1FD2", "U+1FD3", "U+1FD6",
      "U+1FD7", "U+1FD8", "U+1FD9", "U+1FDA", "U+1FDB", "U+1FE0", "U+1FE1",
      "U+1FE2", "U+1FE3", "U+1FE4", "U+1FE5", "U+1FE6", "U+1FE7", "U+1FE8",
      "U+1FE9", "U+1FEA", "U+1FEB", "U+1FEC", "U+1FF2", "U+1FF3", "U+1FF4",
      "U+1FF6", "U+1FF7", "U+1FF8", "U+1FF9", "U+1FFA", "U+1FFB", "U+1FFC",
      "U+2102", "U+2107", "U+210A", "U+210B", "U+210C", "U+210D", "U+210E",
      "U+210F", "U+2110", "U+2111", "U+2112", "U+2113", "U+2115", "U+2119",
      "U+211A", "U+211B", "U+211C", "U+211D", "U+2124", "U+2126", "U+2128",
      "U+212A", "U+212B", "U+212C", "U+212D", "U+212F", "U+2130", "U+2131",
      "U+2132", "U+2133", "U+2134", "U+2139", "U+213C", "U+213D", "U+213E",
      "U+213F", "U+2145", "U+2146", "U+2147", "U+2148", "U+2149", "U+214E",
      "U+2160", "U+2161", "U+2162", "U+2163", "U+2164", "U+2165", "U+2166",
      "U+2167", "U+2168", "U+2169", "U+216A", "U+216B", "U+216C", "U+216D",
      "U+216E", "U+216F", "U+2170", "U+2171", "U+2172", "U+2173", "U+2174",
      "U+2175", "U+2176", "U+2177", "U+2178", "U+2179", "U+217A", "U+217B",
      "U+217C", "U+217D", "U+217E", "U+217F", "U+2183", "U+2184", "U+24B6",
      "U+24B7", "U+24B8", "U+24B9", "U+24BA", "U+24BB", "U+24BC", "U+24BD",
      "U+24BE", "U+24BF", "U+24C0", "U+24C1", "U+24C2", "U+24C3", "U+24C4",
      "U+24C5", "U+24C6", "U+24C7", "U+24C8", "U+24C9", "U+24CA", "U+24CB",
      "U+24CC", "U+24CD", "U+24CE", "U+24CF", "U+24D0", "U+24D1", "U+24D2",
      "U+24D3", "U+24D4", "U+24D5", "U+24D6", "U+24D7", "U+24D8", "U+24D9",
      "U+24DA", "U+24DB", "U+24DC", "U+24DD", "U+24DE", "U+24DF", "U+24E0",
      "U+24E1", "U+24E2", "U+24E3", "U+24E4", "U+24E5", "U+24E6", "U+24E7",
      "U+24E8", "U+24E9", "U+2C00", "U+2C01", "U+2C02", "U+2C03", "U+2C04",
      "U+2C05", "U+2C06", "U+2C07", "U+2C08", "U+2C09", "U+2C0A", "U+2C0B",
      "U+2C0C", "U+2C0D", "U+2C0E", "U+2C0F", "U+2C10", "U+2C11", "U+2C12",
      "U+2C13", "U+2C14", "U+2C15", "U+2C16", "U+2C17", "U+2C18", "U+2C19",
      "U+2C1A", "U+2C1B", "U+2C1C", "U+2C1D", "U+2C1E", "U+2C1F", "U+2C20",
      "U+2C21", "U+2C22", "U+2C23", "U+2C24", "U+2C25", "U+2C26", "U+2C27",
      "U+2C28", "U+2C29", "U+2C2A", "U+2C2B", "U+2C2C", "U+2C2D", "U+2C2E",
      "U+2C2F", "U+2C30", "U+2C31", "U+2C32", "U+2C33", "U+2C34", "U+2C35",
      "U+2C36", "U+2C37", "U+2C38", "U+2C39", "U+2C3A", "U+2C3B", "U+2C3C",
      "U+2C3D", "U+2C3E", "U+2C3F", "U+2C40", "U+2C41", "U+2C42", "U+2C43",
      "U+2C44", "U+2C45", "U+2C46", "U+2C47", "U+2C48", "U+2C49", "U+2C4A",
      "U+2C4B", "U+2C4C", "U+2C4D", "U+2C4E", "U+2C4F", "U+2C50", "U+2C51",
      "U+2C52", "U+2C53", "U+2C54", "U+2C55", "U+2C56", "U+2C57", "U+2C58",
      "U+2C59", "U+2C5A", "U+2C5B", "U+2C5C", "U+2C5D", "U+2C5E", "U+2C5F",
      "U+2C60", "U+2C61", "U+2C62", "U+2C63", "U+2C64", "U+2C65", "U+2C66",
      "U+2C67", "U+2C68", "U+2C69", "U+2C6A", "U+2C6B", "U+2C6C", "U+2C6D",
      "U+2C6E", "U+2C6F", "U+2C70", "U+2C71", "U+2C72", "U+2C73", "U+2C74",
      "U+2C75", "U+2C76", "U+2C77", "U+2C78", "U+2C79", "U+2C7A", "U+2C7B",
      "U+2C7E", "U+2C7F", "U+2C80", "U+2C81", "U+2C82", "U+2C83", "U+2C84",
      "U+2C85", "U+2C86", "U+2C87", "U+2C88", "U+2C89", "U+2C8A", "U+2C8B",
      "U+2C8C", "U+2C8D", "U+2C8E", "U+2C8F", "U+2C90", "U+2C91", "U+2C92",
      "U+2C93", "U+2C94", "U+2C95", "U+2C96", "U+2C97", "U+2C98", "U+2C99",
      "U+2C9A", "U+2C9B", "U+2C9C", "U+2C9D", "U+2C9E", "U+2C9F", "U+2CA0",
      "U+2CA1", "U+2CA2", "U+2CA3", "U+2CA4", "U+2CA5", "U+2CA6", "U+2CA7",
      "U+2CA8", "U+2CA9", "U+2CAA", "U+2CAB", "U+2CAC", "U+2CAD", "U+2CAE",
      "U+2CAF", "U+2CB0", "U+2CB1", "U+2CB2", "U+2CB3", "U+2CB4", "U+2CB5",
      "U+2CB6", "U+2CB7", "U+2CB8", "U+2CB9", "U+2CBA", "U+2CBB", "U+2CBC",
      "U+2CBD", "U+2CBE", "U+2CBF", "U+2CC0", "U+2CC1", "U+2CC2", "U+2CC3",
      "U+2CC4", "U+2CC5", "U+2CC6", "U+2CC7", "U+2CC8", "U+2CC9", "U+2CCA",
      "U+2CCB", "U+2CCC", "U+2CCD", "U+2CCE", "U+2CCF", "U+2CD0", "U+2CD1",
      "U+2CD2", "U+2CD3", "U+2CD4", "U+2CD5", "U+2CD6", "U+2CD7", "U+2CD8",
      "U+2CD9", "U+2CDA", "U+2CDB", "U+2CDC", "U+2CDD", "U+2CDE", "U+2CDF",
      "U+2CE0", "U+2CE1", "U+2CE2", "U+2CE3", "U+2CE4", "U+2CEB", "U+2CEC",
      "U+2CED", "U+2CEE", "U+2CF2", "U+2CF3", "U+2D00", "U+2D01", "U+2D02",
      "U+2D03", "U+2D04", "U+2D05", "U+2D06", "U+2D07", "U+2D08", "U+2D09",
      "U+2D0A", "U+2D0B", "U+2D0C", "U+2D0D", "U+2D0E", "U+2D0F", "U+2D10",
      "U+2D11", "U+2D12", "U+2D13", "U+2D14", "U+2D15", "U+2D16", "U+2D17",
      "U+2D18", "U+2D19", "U+2D1A", "U+2D1B", "U+2D1C", "U+2D1D", "U+2D1E",
      "U+2D1F", "U+2D20", "U+2D21", "U+2D22", "U+2D23", "U+2D24", "U+2D25",
      "U+2D27", "U+2D2D", "U+A640", "U+A641", "U+A642", "U+A643", "U+A644",
      "U+A645", "U+A646", "U+A647", "U+A648", "U+A649", "U+A64A", "U+A64B",
      "U+A64C", "U+A64D", "U+A64E", "U+A64F", "U+A650", "U+A651", "U+A652",
      "U+A653", "U+A654", "U+A655", "U+A656", "U+A657", "U+A658", "U+A659",
      "U+A65A", "U+A65B", "U+A65C", "U+A65D", "U+A65E", "U+A65F", "U+A660",
      "U+A661", "U+A662", "U+A663", "U+A664", "U+A665", "U+A666", "U+A667",
      "U+A668", "U+A669", "U+A66A", "U+A66B", "U+A66C", "U+A66D", "U+A680",
      "U+A681", "U+A682", "U+A683", "U+A684", "U+A685", "U+A686", "U+A687",
      "U+A688", "U+A689", "U+A68A", "U+A68B", "U+A68C", "U+A68D", "U+A68E",
      "U+A68F", "U+A690", "U+A691", "U+A692", "U+A693", "U+A694", "U+A695",
      "U+A696", "U+A697", "U+A698", "U+A699", "U+A69A", "U+A69B", "U+A722",
      "U+A723", "U+A724", "U+A725", "U+A726", "U+A727", "U+A728", "U+A729",
      "U+A72A", "U+A72B", "U+A72C", "U+A72D", "U+A72E", "U+A72F", "U+A730",
      "U+A731", "U+A732", "U+A733", "U+A734", "U+A735", "U+A736", "U+A737",
      "U+A738", "U+A739", "U+A73A", "U+A73B", "U+A73C", "U+A73D", "U+A73E",
      "U+A73F", "U+A740", "U+A741", "U+A742", "U+A743", "U+A744", "U+A745",
      "U+A746", "U+A747", "U+A748", "U+A749", "U+A74A", "U+A74B", "U+A74C",
      "U+A74D", "U+A74E", "U+A74F", "U+A750", "U+A751", "U+A752", "U+A753",
      "U+A754", "U+A755", "U+A756", "U+A757", "U+A758", "U+A759", "U+A75A",
      "U+A75B", "U+A75C", "U+A75D", "U+A75E", "U+A75F", "U+A760", "U+A761",
      "U+A762", "U+A763", "U+A764", "U+A765", "U+A766", "U+A767", "U+A768",
      "U+A769", "U+A76A", "U+A76B", "U+A76C", "U+A76D", "U+A76E", "U+A76F",
      "U+A771", "U+A772", "U+A773", "U+A774", "U+A775", "U+A776", "U+A777",
      "U+A778", "U+A779", "U+A77A", "U+A77B", "U+A77C", "U+A77D", "U+A77E",
      "U+A77F", "U+A780", "U+A781", "U+A782", "U+A783", "U+A784", "U+A785",
      "U+A786", "U+A787", "U+A78B", "U+A78C", "U+A78D", "U+A78E", "U+A790",
      "U+A791", "U+A792", "U+A793", "U+A794", "U+A795", "U+A796", "U+A797",
      "U+A798", "U+A799", "U+A79A", "U+A79B", "U+A79C", "U+A79D", "U+A79E",
      "U+A79F", "U+A7A0", "U+A7A1", "U+A7A2", "U+A7A3", "U+A7A4", "U+A7A5",
      "U+A7A6", "U+A7A7", "U+A7A8", "U+A7A9", "U+A7AA", "U+A7AB", "U+A7AC",
      "U+A7AD", "U+A7AE", "U+A7AF", "U+A7B0", "U+A7B1", "U+A7B2", "U+A7B3",
      "U+A7B4", "U+A7B5", "U+A7B6", "U+A7B7", "U+A7B8", "U+A7B9", "U+A7BA",
      "U+A7BB", "U+A7BC", "U+A7BD", "U+A7BE", "U+A7BF", "U+A7C0", "U+A7C1",
      "U+A7C2", "U+A7C3", "U+A7C4", "U+A7C5", "U+A7C6", "U+A7C7", "U+A7C8",
      "U+A7C9", "U+A7CA", "U+A7D0", "U+A7D1", "U+A7D3", "U+A7D5", "U+A7D6",
      "U+A7D7", "U+A7D8", "U+A7D9", "U+A7F5", "U+A7F6", "U+A7FA", "U+AB30",
      "U+AB31", "U+AB32", "U+AB33", "U+AB34", "U+AB35", "U+AB36", "U+AB37",
      "U+AB38", "U+AB39", "U+AB3A", "U+AB3B", "U+AB3C", "U+AB3D", "U+AB3E",
      "U+AB3F", "U+AB40", "U+AB41", "U+AB42", "U+AB43", "U+AB44", "U+AB45",
      "U+AB46", "U+AB47", "U+AB48", "U+AB49", "U+AB4A", "U+AB4B", "U+AB4C",
      "U+AB4D", "U+AB4E", "U+AB4F", "U+AB50", "U+AB51", "U+AB52", "U+AB53",
      "U+AB54", "U+AB55", "U+AB56", "U+AB57", "U+AB58", "U+AB59", "U+AB5A",
      "U+AB60", "U+AB61", "U+AB62", "U+AB63", "U+AB64", "U+AB65", "U+AB66",
      "U+AB67", "U+AB68", "U+AB70", "U+AB71", "U+AB72", "U+AB73", "U+AB74",
      "U+AB75", "U+AB76", "U+AB77", "U+AB78", "U+AB79", "U+AB7A", "U+AB7B",
      "U+AB7C", "U+AB7D", "U+AB7E", "U+AB7F", "U+AB80", "U+AB81", "U+AB82",
      "U+AB83", "U+AB84", "U+AB85", "U+AB86", "U+AB87", "U+AB88", "U+AB89",
      "U+AB8A", "U+AB8B", "U+AB8C", "U+AB8D", "U+AB8E", "U+AB8F", "U+AB90",
      "U+AB91", "U+AB92", "U+AB93", "U+AB94", "U+AB95", "U+AB96", "U+AB97",
      "U+AB98", "U+AB99", "U+AB9A", "U+AB9B", "U+AB9C", "U+AB9D", "U+AB9E",
      "U+AB9F", "U+ABA0", "U+ABA1", "U+ABA2", "U+ABA3", "U+ABA4", "U+ABA5",
      "U+ABA6", "U+ABA7", "U+ABA8", "U+ABA9", "U+ABAA", "U+ABAB", "U+ABAC",
      "U+ABAD", "U+ABAE", "U+ABAF", "U+ABB0", "U+ABB1", "U+ABB2", "U+ABB3",
      "U+ABB4", "U+ABB5", "U+ABB6", "U+ABB7", "U+ABB8", "U+ABB9", "U+ABBA",
      "U+ABBB", "U+ABBC", "U+ABBD", "U+ABBE", "U+ABBF", "U+FB00", "U+FB01",
      "U+FB02", "U+FB03", "U+FB04", "U+FB05", "U+FB06", "U+FB13", "U+FB14",
      "U+FB15", "U+FB16", "U+FB17", "U+FF21", "U+FF22", "U+FF23", "U+FF24",
      "U+FF25", "U+FF26", "U+FF27", "U+FF28", "U+FF29", "U+FF2A", "U+FF2B",
      "U+FF2C", "U+FF2D", "U+FF2E", "U+FF2F", "U+FF30", "U+FF31", "U+FF32",
      "U+FF33", "U+FF34", "U+FF35", "U+FF36", "U+FF37", "U+FF38", "U+FF39",
      "U+FF3A", "U+FF41", "U+FF42", "U+FF43", "U+FF44", "U+FF45", "U+FF46",
      "U+FF47", "U+FF48", "U+FF49", "U+FF4A", "U+FF4B", "U+FF4C", "U+FF4D",
      "U+FF4E", "U+FF4F", "U+FF50", "U+FF51", "U+FF52", "U+FF53", "U+FF54",
      "U+FF55", "U+FF56", "U+FF57", "U+FF58", "U+FF59", "U+FF5A", "U+10400",
      "U+10401", "U+10402", "U+10403", "U+10404", "U+10405", "U+10406",
      "U+10407", "U+10408", "U+10409", "U+1040A", "U+1040B", "U+1040C",
      "U+1040D", "U+1040E", "U+1040F", "U+10410", "U+10411", "U+10412",
      "U+10413", "U+10414", "U+10415", "U+10416", "U+10417", "U+10418",
      "U+10419", "U+1041A", "U+1041B", "U+1041C", "U+1041D", "U+1041E",
      "U+1041F", "U+10420", "U+10421", "U+10422", "U+10423", "U+10424",
      "U+10425", "U+10426", "U+10427", "U+10428", "U+10429", "U+1042A",
      "U+1042B", "U+1042C", "U+1042D", "U+1042E", "U+1042F", "U+10430",
      "U+10431", "U+10432", "U+10433", "U+10434", "U+10435", "U+10436",
      "U+10437", "U+10438", "U+10439", "U+1043A", "U+1043B", "U+1043C",
      "U+1043D", "U+1043E", "U+1043F", "U+10440", "U+10441", "U+10442",
      "U+10443", "U+10444", "U+10445", "U+10446", "U+10447", "U+10448",
      "U+10449", "U+1044A", "U+1044B", "U+1044C", "U+1044D", "U+1044E",
      "U+1044F", "U+104B0", "U+104B1", "U+104B2", "U+104B3", "U+104B4",
      "U+104B5", "U+104B6", "U+104B7", "U+104B8", "U+104B9", "U+104BA",
      "U+104BB", "U+104BC", "U+104BD", "U+104BE", "U+104BF", "U+104C0",
      "U+104C1", "U+104C2", "U+104C3", "U+104C4", "U+104C5", "U+104C6",
      "U+104C7", "U+104C8", "U+104C9", "U+104CA", "U+104CB", "U+104CC",
      "U+104CD", "U+104CE", "U+104CF", "U+104D0", "U+104D1", "U+104D2",
      "U+104D3", "U+104D8", "U+104D9", "U+104DA", "U+104DB", "U+104DC",
      "U+104DD", "U+104DE", "U+104DF", "U+104E0", "U+104E1", "U+104E2",
      "U+104E3", "U+104E4", "U+104E5", "U+104E6", "U+104E7", "U+104E8",
      "U+104E9", "U+104EA", "U+104EB", "U+104EC", "U+104ED", "U+104EE",
      "U+104EF", "U+104F0", "U+104F1", "U+104F2", "U+104F3", "U+104F4",
      "U+104F5", "U+104F6", "U+104F7", "U+104F8", "U+104F9", "U+104FA",
      "U+104FB", "U+10570", "U+10571", "U+10572", "U+10573", "U+10574",
      "U+10575", "U+10576", "U+10577", "U+10578", "U+10579", "U+1057A",
      "U+1057C", "U+1057D", "U+1057E", "U+1057F", "U+10580", "U+10581",
      "U+10582", "U+10583", "U+10584", "U+10585", "U+10586", "U+10587",
      "U+10588", "U+10589", "U+1058A", "U+1058C", "U+1058D", "U+1058E",
      "U+1058F", "U+10590", "U+10591", "U+10592", "U+10594", "U+10595",
      "U+10597", "U+10598", "U+10599", "U+1059A", "U+1059B", "U+1059C",
      "U+1059D", "U+1059E", "U+1059F", "U+105A0", "U+105A1", "U+105A3",
      "U+105A4", "U+105A5", "U+105A6", "U+105A7", "U+105A8", "U+105A9",
      "U+105AA", "U+105AB", "U+105AC", "U+105AD", "U+105AE", "U+105AF",
      "U+105B0", "U+105B1", "U+105B3", "U+105B4", "U+105B5", "U+105B6",
      "U+105B7", "U+105B8", "U+105B9", "U+105BB", "U+105BC", "U+10C80",
      "U+10C81", "U+10C82", "U+10C83", "U+10C84", "U+10C85", "U+10C86",
      "U+10C87", "U+10C88", "U+10C89", "U+10C8A", "U+10C8B", "U+10C8C",
      "U+10C8D", "U+10C8E", "U+10C8F", "U+10C90", "U+10C91", "U+10C92",
      "U+10C93", "U+10C94", "U+10C95", "U+10C96", "U+10C97", "U+10C98",
      "U+10C99", "U+10C9A", "U+10C9B", "U+10C9C", "U+10C9D", "U+10C9E",
      "U+10C9F", "U+10CA0", "U+10CA1", "U+10CA2", "U+10CA3", "U+10CA4",
      "U+10CA5", "U+10CA6", "U+10CA7", "U+10CA8", "U+10CA9", "U+10CAA",
      "U+10CAB", "U+10CAC", "U+10CAD", "U+10CAE", "U+10CAF", "U+10CB0",
      "U+10CB1", "U+10CB2", "U+10CC0", "U+10CC1", "U+10CC2", "U+10CC3",
      "U+10CC4", "U+10CC5", "U+10CC6", "U+10CC7", "U+10CC8", "U+10CC9",
      "U+10CCA", "U+10CCB", "U+10CCC", "U+10CCD", "U+10CCE", "U+10CCF",
      "U+10CD0", "U+10CD1", "U+10CD2", "U+10CD3", "U+10CD4", "U+10CD5",
      "U+10CD6", "U+10CD7", "U+10CD8", "U+10CD9", "U+10CDA", "U+10CDB",
      "U+10CDC", "U+10CDD", "U+10CDE", "U+10CDF", "U+10CE0", "U+10CE1",
      "U+10CE2", "U+10CE3", "U+10CE4", "U+10CE5", "U+10CE6", "U+10CE7",
      "U+10CE8", "U+10CE9", "U+10CEA", "U+10CEB", "U+10CEC", "U+10CED",
      "U+10CEE", "U+10CEF", "U+10CF0", "U+10CF1", "U+10CF2", "U+118A0",
      "U+118A1", "U+118A2", "U+118A3", "U+118A4", "U+118A5", "U+118A6",
      "U+118A7", "U+118A8", "U+118A9", "U+118AA", "U+118AB", "U+118AC",
      "U+118AD", "U+118AE", "U+118AF", "U+118B0", "U+118B1", "U+118B2",
      "U+118B3", "U+118B4", "U+118B5", "U+118B6", "U+118B7", "U+118B8",
      "U+118B9", "U+118BA", "U+118BB", "U+118BC", "U+118BD", "U+118BE",
      "U+118BF", "U+118C0", "U+118C1", "U+118C2", "U+118C3", "U+118C4",
      "U+118C5", "U+118C6", "U+118C7", "U+118C8", "U+118C9", "U+118CA",
      "U+118CB", "U+118CC", "U+118CD", "U+118CE", "U+118CF", "U+118D0",
      "U+118D1", "U+118D2", "U+118D3", "U+118D4", "U+118D5", "U+118D6",
      "U+118D7", "U+118D8", "U+118D9", "U+118DA", "U+118DB", "U+118DC",
      "U+118DD", "U+118DE", "U+118DF", "U+16E40", "U+16E41", "U+16E42",
      "U+16E43", "U+16E44", "U+16E45", "U+16E46", "U+16E47", "U+16E48",
      "U+16E49", "U+16E4A", "U+16E4B", "U+16E4C", "U+16E4D", "U+16E4E",
      "U+16E4F", "U+16E50", "U+16E51", "U+16E52", "U+16E53", "U+16E54",
      "U+16E55", "U+16E56", "U+16E57", "U+16E58", "U+16E59", "U+16E5A",
      "U+16E5B", "U+16E5C", "U+16E5D", "U+16E5E", "U+16E5F", "U+16E60",
      "U+16E61", "U+16E62", "U+16E63", "U+16E64", "U+16E65", "U+16E66",
      "U+16E67", "U+16E68", "U+16E69", "U+16E6A", "U+16E6B", "U+16E6C",
      "U+16E6D", "U+16E6E", "U+16E6F", "U+16E70", "U+16E71", "U+16E72",
      "U+16E73", "U+16E74", "U+16E75", "U+16E76", "U+16E77", "U+16E78",
      "U+16E79", "U+16E7A", "U+16E7B", "U+16E7C", "U+16E7D", "U+16E7E",
      "U+16E7F", "U+1D400", "U+1D401", "U+1D402", "U+1D403", "U+1D404",
      "U+1D405", "U+1D406", "U+1D407", "U+1D408", "U+1D409", "U+1D40A",
      "U+1D40B", "U+1D40C", "U+1D40D", "U+1D40E", "U+1D40F", "U+1D410",
      "U+1D411", "U+1D412", "U+1D413", "U+1D414", "U+1D415", "U+1D416",
      "U+1D417", "U+1D418", "U+1D419", "U+1D41A", "U+1D41B", "U+1D41C",
      "U+1D41D", "U+1D41E", "U+1D41F", "U+1D420", "U+1D421", "U+1D422",
      "U+1D423", "U+1D424", "U+1D425", "U+1D426", "U+1D427", "U+1D428",
      "U+1D429", "U+1D42A", "U+1D42B", "U+1D42C", "U+1D42D", "U+1D42E",
      "U+1D42F", "U+1D430", "U+1D431", "U+1D432", "U+1D433", "U+1D434",
      "U+1D435", "U+1D436", "U+1D437", "U+1D438", "U+1D439", "U+1D43A",
      "U+1D43B", "U+1D43C", "U+1D43D", "U+1D43E", "U+1D43F", "U+1D440",
      "U+1D441", "U+1D442", "U+1D443", "U+1D444", "U+1D445", "U+1D446",
      "U+1D447", "U+1D448", "U+1D449", "U+1D44A", "U+1D44B", "U+1D44C",
      "U+1D44D", "U+1D44E", "U+1D44F", "U+1D450", "U+1D451", "U+1D452",
      "U+1D453", "U+1D454", "U+1D456", "U+1D457", "U+1D458", "U+1D459",
      "U+1D45A", "U+1D45B", "U+1D45C", "U+1D45D", "U+1D45E", "U+1D45F",
      "U+1D460", "U+1D461", "U+1D462", "U+1D463", "U+1D464", "U+1D465",
      "U+1D466", "U+1D467", "U+1D468", "U+1D469", "U+1D46A", "U+1D46B",
      "U+1D46C", "U+1D46D", "U+1D46E", "U+1D46F", "U+1D470", "U+1D471",
      "U+1D472", "U+1D473", "U+1D474", "U+1D475", "U+1D476", "U+1D477",
      "U+1D478", "U+1D479", "U+1D47A", "U+1D47B", "U+1D47C", "U+1D47D",
      "U+1D47E", "U+1D47F", "U+1D480", "U+1D481", "U+1D482", "U+1D483",
      "U+1D484", "U+1D485", "U+1D486", "U+1D487", "U+1D488", "U+1D489",
      "U+1D48A", "U+1D48B", "U+1D48C", "U+1D48D", "U+1D48E", "U+1D48F",
      "U+1D490", "U+1D491", "U+1D492", "U+1D493", "U+1D494", "U+1D495",
      "U+1D496", "U+1D497", "U+1D498", "U+1D499", "U+1D49A", "U+1D49B",
      "U+1D49C", "U+1D49E", "U+1D49F", "U+1D4A2", "U+1D4A5", "U+1D4A6",
      "U+1D4A9", "U+1D4AA", "U+1D4AB", "U+1D4AC", "U+1D4AE", "U+1D4AF",
      "U+1D4B0", "U+1D4B1", "U+1D4B2", "U+1D4B3", "U+1D4B4", "U+1D4B5",
      "U+1D4B6", "U+1D4B7", "U+1D4B8", "U+1D4B9", "U+1D4BB", "U+1D4BD",
      "U+1D4BE", "U+1D4BF", "U+1D4C0", "U+1D4C1", "U+1D4C2", "U+1D4C3",
      "U+1D4C5", "U+1D4C6", "U+1D4C7", "U+1D4C8", "U+1D4C9", "U+1D4CA",
      "U+1D4CB", "U+1D4CC", "U+1D4CD", "U+1D4CE", "U+1D4CF", "U+1D4D0",
      "U+1D4D1", "U+1D4D2", "U+1D4D3", "U+1D4D4", "U+1D4D5", "U+1D4D6",
      "U+1D4D7", "U+1D4D8", "U+1D4D9", "U+1D4DA", "U+1D4DB", "U+1D4DC",
      "U+1D4DD", "U+1D4DE", "U+1D4DF", "U+1D4E0", "U+1D4E1", "U+1D4E2",
      "U+1D4E3", "U+1D4E4", "U+1D4E5", "U+1D4E6", "U+1D4E7", "U+1D4E8",
      "U+1D4E9", "U+1D4EA", "U+1D4EB", "U+1D4EC", "U+1D4ED", "U+1D4EE",
      "U+1D4EF", "U+1D4F0", "U+1D4F1", "U+1D4F2", "U+1D4F3", "U+1D4F4",
      "U+1D4F5", "U+1D4F6", "U+1D4F7", "U+1D4F8", "U+1D4F9", "U+1D4FA",
      "U+1D4FB", "U+1D4FC", "U+1D4FD", "U+1D4FE", "U+1D4FF", "U+1D500",
      "U+1D501", "U+1D502", "U+1D503", "U+1D504", "U+1D505", "U+1D507",
      "U+1D508", "U+1D509", "U+1D50A", "U+1D50D", "U+1D50E", "U+1D50F",
      "U+1D510", "U+1D511", "U+1D512", "U+1D513", "U+1D514", "U+1D516",
      "U+1D517", "U+1D518", "U+1D519", "U+1D51A", "U+1D51B", "U+1D51C",
      "U+1D51E", "U+1D51F", "U+1D520", "U+1D521", "U+1D522", "U+1D523",
      "U+1D524", "U+1D525", "U+1D526", "U+1D527", "U+1D528", "U+1D529",
      "U+1D52A", "U+1D52B", "U+1D52C", "U+1D52D", "U+1D52E", "U+1D52F",
      "U+1D530", "U+1D531", "U+1D532", "U+1D533", "U+1D534", "U+1D535",
      "U+1D536", "U+1D537", "U+1D538", "U+1D539", "U+1D53B", "U+1D53C",
      "U+1D53D", "U+1D53E", "U+1D540", "U+1D541", "U+1D542", "U+1D543",
      "U+1D544", "U+1D546", "U+1D54A", "U+1D54B", "U+1D54C", "U+1D54D",
      "U+1D54E", "U+1D54F", "U+1D550", "U+1D552", "U+1D553", "U+1D554",
      "U+1D555", "U+1D556", "U+1D557", "U+1D558", "U+1D559", "U+1D55A",
      "U+1D55B", "U+1D55C", "U+1D55D", "U+1D55E", "U+1D55F", "U+1D560",
      "U+1D561", "U+1D562", "U+1D563", "U+1D564", "U+1D565", "U+1D566",
      "U+1D567", "U+1D568", "U+1D569", "U+1D56A", "U+1D56B", "U+1D56C",
      "U+1D56D", "U+1D56E", "U+1D56F", "U+1D570", "U+1D571", "U+1D572",
      "U+1D573", "U+1D574", "U+1D575", "U+1D576", "U+1D577", "U+1D578",
      "U+1D579", "U+1D57A", "U+1D57B", "U+1D57C", "U+1D57D", "U+1D57E",
      "U+1D57F", "U+1D580", "U+1D581", "U+1D582", "U+1D583", "U+1D584",
      "U+1D585", "U+1D586", "U+1D587", "U+1D588", "U+1D589", "U+1D58A",
      "U+1D58B", "U+1D58C", "U+1D58D", "U+1D58E", "U+1D58F", "U+1D590",
      "U+1D591", "U+1D592", "U+1D593", "U+1D594", "U+1D595", "U+1D596",
      "U+1D597", "U+1D598", "U+1D599", "U+1D59A", "U+1D59B", "U+1D59C",
      "U+1D59D", "U+1D59E", "U+1D59F", "U+1D5A0", "U+1D5A1", "U+1D5A2",
      "U+1D5A3", "U+1D5A4", "U+1D5A5", "U+1D5A6", "U+1D5A7", "U+1D5A8",
      "U+1D5A9", "U+1D5AA", "U+1D5AB", "U+1D5AC", "U+1D5AD", "U+1D5AE",
      "U+1D5AF", "U+1D5B0", "U+1D5B1", "U+1D5B2", "U+1D5B3", "U+1D5B4",
      "U+1D5B5", "U+1D5B6", "U+1D5B7", "U+1D5B8", "U+1D5B9", "U+1D5BA",
      "U+1D5BB", "U+1D5BC", "U+1D5BD", "U+1D5BE", "U+1D5BF", "U+1D5C0",
      "U+1D5C1", "U+1D5C2", "U+1D5C3", "U+1D5C4", "U+1D5C5", "U+1D5C6",
      "U+1D5C7", "U+1D5C8", "U+1D5C9", "U+1D5CA", "U+1D5CB", "U+1D5CC",
      "U+1D5CD", "U+1D5CE", "U+1D5CF", "U+1D5D0", "U+1D5D1", "U+1D5D2",
      "U+1D5D3", "U+1D5D4", "U+1D5D5", "U+1D5D6", "U+1D5D7", "U+1D5D8",
      "U+1D5D9", "U+1D5DA", "U+1D5DB", "U+1D5DC", "U+1D5DD", "U+1D5DE",
      "U+1D5DF", "U+1D5E0", "U+1D5E1", "U+1D5E2", "U+1D5E3", "U+1D5E4",
      "U+1D5E5", "U+1D5E6", "U+1D5E7", "U+1D5E8", "U+1D5E9", "U+1D5EA",
      "U+1D5EB", "U+1D5EC", "U+1D5ED", "U+1D5EE", "U+1D5EF", "U+1D5F0",
      "U+1D5F1", "U+1D5F2", "U+1D5F3", "U+1D5F4", "U+1D5F5", "U+1D5F6",
      "U+1D5F7", "U+1D5F8", "U+1D5F9", "U+1D5FA", "U+1D5FB", "U+1D5FC",
      "U+1D5FD", "U+1D5FE", "U+1D5FF", "U+1D600", "U+1D601", "U+1D602",
      "U+1D603", "U+1D604", "U+1D605", "U+1D606", "U+1D607", "U+1D608",
      "U+1D609", "U+1D60A", "U+1D60B", "U+1D60C", "U+1D60D", "U+1D60E",
      "U+1D60F", "U+1D610", "U+1D611", "U+1D612", "U+1D613", "U+1D614",
      "U+1D615", "U+1D616", "U+1D617", "U+1D618", "U+1D619", "U+1D61A",
      "U+1D61B", "U+1D61C", "U+1D61D", "U+1D61E", "U+1D61F", "U+1D620",
      "U+1D621", "U+1D622", "U+1D623", "U+1D624", "U+1D625", "U+1D626",
      "U+1D627", "U+1D628", "U+1D629", "U+1D62A", "U+1D62B", "U+1D62C",
      "U+1D62D", "U+1D62E", "U+1D62F", "U+1D630", "U+1D631", "U+1D632",
      "U+1D633", "U+1D634", "U+1D635", "U+1D636", "U+1D637", "U+1D638",
      "U+1D639", "U+1D63A", "U+1D63B", "U+1D63C", "U+1D63D", "U+1D63E",
      "U+1D63F", "U+1D640", "U+1D641", "U+1D642", "U+1D643", "U+1D644",
      "U+1D645", "U+1D646", "U+1D647", "U+1D648", "U+1D649", "U+1D64A",
      "U+1D64B", "U+1D64C", "U+1D64D", "U+1D64E", "U+1D64F", "U+1D650",
      "U+1D651", "U+1D652", "U+1D653", "U+1D654", "U+1D655", "U+1D656",
      "U+1D657", "U+1D658", "U+1D659", "U+1D65A", "U+1D65B", "U+1D65C",
      "U+1D65D", "U+1D65E", "U+1D65F", "U+1D660", "U+1D661", "U+1D662",
      "U+1D663", "U+1D664", "U+1D665", "U+1D666", "U+1D667", "U+1D668",
      "U+1D669", "U+1D66A", "U+1D66B", "U+1D66C", "U+1D66D", "U+1D66E",
      "U+1D66F", "U+1D670", "U+1D671", "U+1D672", "U+1D673", "U+1D674",
      "U+1D675", "U+1D676", "U+1D677", "U+1D678", "U+1D679", "U+1D67A",
      "U+1D67B", "U+1D67C", "U+1D67D", "U+1D67E", "U+1D67F", "U+1D680",
      "U+1D681", "U+1D682", "U+1D683", "U+1D684", "U+1D685", "U+1D686",
      "U+1D687", "U+1D688", "U+1D689", "U+1D68A", "U+1D68B", "U+1D68C",
      "U+1D68D", "U+1D68E", "U+1D68F", "U+1D690", "U+1D691", "U+1D692",
      "U+1D693", "U+1D694", "U+1D695", "U+1D696", "U+1D697", "U+1D698",
      "U+1D699", "U+1D69A", "U+1D69B", "U+1D69C", "U+1D69D", "U+1D69E",
      "U+1D69F", "U+1D6A0", "U+1D6A1", "U+1D6A2", "U+1D6A3", "U+1D6A4",
      "U+1D6A5", "U+1D6A8", "U+1D6A9", "U+1D6AA", "U+1D6AB", "U+1D6AC",
      "U+1D6AD", "U+1D6AE", "U+1D6AF", "U+1D6B0", "U+1D6B1", "U+1D6B2",
      "U+1D6B3", "U+1D6B4", "U+1D6B5", "U+1D6B6", "U+1D6B7", "U+1D6B8",
      "U+1D6B9", "U+1D6BA", "U+1D6BB", "U+1D6BC", "U+1D6BD", "U+1D6BE",
      "U+1D6BF", "U+1D6C0", "U+1D6C2", "U+1D6C3", "U+1D6C4", "U+1D6C5",
      "U+1D6C6", "U+1D6C7", "U+1D6C8", "U+1D6C9", "U+1D6CA", "U+1D6CB",
      "U+1D6CC", "U+1D6CD", "U+1D6CE", "U+1D6CF", "U+1D6D0", "U+1D6D1",
      "U+1D6D2", "U+1D6D3", "U+1D6D4", "U+1D6D5", "U+1D6D6", "U+1D6D7",
      "U+1D6D8", "U+1D6D9", "U+1D6DA", "U+1D6DC", "U+1D6DD", "U+1D6DE",
      "U+1D6DF", "U+1D6E0", "U+1D6E1", "U+1D6E2", "U+1D6E3", "U+1D6E4",
      "U+1D6E5", "U+1D6E6", "U+1D6E7", "U+1D6E8", "U+1D6E9", "U+1D6EA",
      "U+1D6EB", "U+1D6EC", "U+1D6ED", "U+1D6EE", "U+1D6EF", "U+1D6F0",
      "U+1D6F1", "U+1D6F2", "U+1D6F3", "U+1D6F4", "U+1D6F5", "U+1D6F6",
      "U+1D6F7", "U+1D6F8", "U+1D6F9", "U+1D6FA", "U+1D6FC", "U+1D6FD",
      "U+1D6FE", "U+1D6FF", "U+1D700", "U+1D701", "U+1D702", "U+1D703",
      "U+1D704", "U+1D705", "U+1D706", "U+1D707", "U+1D708", "U+1D709",
      "U+1D70A", "U+1D70B", "U+1D70C", "U+1D70D", "U+1D70E", "U+1D70F",
      "U+1D710", "U+1D711", "U+1D712", "U+1D713", "U+1D714", "U+1D716",
      "U+1D717", "U+1D718", "U+1D719", "U+1D71A", "U+1D71B", "U+1D71C",
      "U+1D71D", "U+1D71E", "U+1D71F", "U+1D720", "U+1D721", "U+1D722",
      "U+1D723", "U+1D724", "U+1D725", "U+1D726", "U+1D727", "U+1D728",
      "U+1D729", "U+1D72A", "U+1D72B", "U+1D72C", "U+1D72D", "U+1D72E",
      "U+1D72F", "U+1D730", "U+1D731", "U+1D732", "U+1D733", "U+1D734",
      "U+1D736", "U+1D737", "U+1D738", "U+1D739", "U+1D73A", "U+1D73B",
      "U+1D73C", "U+1D73D", "U+1D73E", "U+1D73F", "U+1D740", "U+1D741",
      "U+1D742", "U+1D743", "U+1D744", "U+1D745", "U+1D746", "U+1D747",
      "U+1D748", "U+1D749", "U+1D74A", "U+1D74B", "U+1D74C", "U+1D74D",
      "U+1D74E", "U+1D750", "U+1D751", "U+1D752", "U+1D753", "U+1D754",
      "U+1D755", "U+1D756", "U+1D757", "U+1D758", "U+1D759", "U+1D75A",
      "U+1D75B", "U+1D75C", "U+1D75D", "U+1D75E", "U+1D75F", "U+1D760",
      "U+1D761", "U+1D762", "U+1D763", "U+1D764", "U+1D765", "U+1D766",
      "U+1D767", "U+1D768", "U+1D769", "U+1D76A", "U+1D76B", "U+1D76C",
      "U+1D76D", "U+1D76E", "U+1D770", "U+1D771", "U+1D772", "U+1D773",
      "U+1D774", "U+1D775", "U+1D776", "U+1D777", "U+1D778", "U+1D779",
      "U+1D77A", "U+1D77B", "U+1D77C", "U+1D77D", "U+1D77E", "U+1D77F",
      "U+1D780", "U+1D781", "U+1D782", "U+1D783", "U+1D784", "U+1D785",
      "U+1D786", "U+1D787", "U+1D788", "U+1D78A", "U+1D78B", "U+1D78C",
      "U+1D78D", "U+1D78E", "U+1D78F", "U+1D790", "U+1D791", "U+1D792",
      "U+1D793", "U+1D794", "U+1D795", "U+1D796", "U+1D797", "U+1D798",
      "U+1D799", "U+1D79A", "U+1D79B", "U+1D79C", "U+1D79D", "U+1D79E",
      "U+1D79F", "U+1D7A0", "U+1D7A1", "U+1D7A2", "U+1D7A3", "U+1D7A4",
      "U+1D7A5", "U+1D7A6", "U+1D7A7", "U+1D7A8", "U+1D7AA", "U+1D7AB",
      "U+1D7AC", "U+1D7AD", "U+1D7AE", "U+1D7AF", "U+1D7B0", "U+1D7B1",
      "U+1D7B2", "U+1D7B3", "U+1D7B4", "U+1D7B5", "U+1D7B6", "U+1D7B7",
      "U+1D7B8", "U+1D7B9", "U+1D7BA", "U+1D7BB", "U+1D7BC", "U+1D7BD",
      "U+1D7BE", "U+1D7BF", "U+1D7C0", "U+1D7C1", "U+1D7C2", "U+1D7C4",
      "U+1D7C5", "U+1D7C6", "U+1D7C7", "U+1D7C8", "U+1D7C9", "U+1D7CA",
      "U+1D7CB", "U+1DF00", "U+1DF01", "U+1DF02", "U+1DF03", "U+1DF04",
      "U+1DF05", "U+1DF06", "U+1DF07", "U+1DF08", "U+1DF09", "U+1DF0B",
      "U+1DF0C", "U+1DF0D", "U+1DF0E", "U+1DF0F", "U+1DF10", "U+1DF11",
      "U+1DF12", "U+1DF13", "U+1DF14", "U+1DF15", "U+1DF16", "U+1DF17",
      "U+1DF18", "U+1DF19", "U+1DF1A", "U+1DF1B", "U+1DF1C", "U+1DF1D",
      "U+1DF1E", "U+1E900", "U+1E901", "U+1E902", "U+1E903", "U+1E904",
      "U+1E905", "U+1E906", "U+1E907", "U+1E908", "U+1E909", "U+1E90A",
      "U+1E90B", "U+1E90C", "U+1E90D", "U+1E90E", "U+1E90F", "U+1E910",
      "U+1E911", "U+1E912", "U+1E913", "U+1E914", "U+1E915", "U+1E916",
      "U+1E917", "U+1E918", "U+1E919", "U+1E91A", "U+1E91B", "U+1E91C",
      "U+1E91D", "U+1E91E", "U+1E91F", "U+1E920", "U+1E921", "U+1E922",
      "U+1E923", "U+1E924", "U+1E925", "U+1E926", "U+1E927", "U+1E928",
      "U+1E929", "U+1E92A", "U+1E92B", "U+1E92C", "U+1E92D", "U+1E92E",
      "U+1E92F", "U+1E930", "U+1E931", "U+1E932", "U+1E933", "U+1E934",
      "U+1E935", "U+1E936", "U+1E937", "U+1E938", "U+1E939", "U+1E93A",
      "U+1E93B", "U+1E93C", "U+1E93D", "U+1E93E", "U+1E93F", "U+1E940",
      "U+1E941", "U+1E942", "U+1E943", "U+1F130", "U+1F131", "U+1F132",
      "U+1F133", "U+1F134", "U+1F135", "U+1F136", "U+1F137", "U+1F138",
      "U+1F139", "U+1F13A", "U+1F13B", "U+1F13C", "U+1F13D", "U+1F13E",
      "U+1F13F", "U+1F140", "U+1F141", "U+1F142", "U+1F143", "U+1F144",
      "U+1F145", "U+1F146", "U+1F147", "U+1F148", "U+1F149", "U+1F150",
      "U+1F151", "U+1F152", "U+1F153", "U+1F154", "U+1F155", "U+1F156",
      "U+1F157", "U+1F158", "U+1F159", "U+1F15A", "U+1F15B", "U+1F15C",
      "U+1F15D", "U+1F15E", "U+1F15F", "U+1F160", "U+1F161", "U+1F162",
      "U+1F163", "U+1F164", "U+1F165", "U+1F166", "U+1F167", "U+1F168",
      "U+1F169", "U+1F170", "U+1F171", "U+1F172", "U+1F173", "U+1F174",
      "U+1F175", "U+1F176", "U+1F177", "U+1F178", "U+1F179", "U+1F17A",
      "U+1F17B", "U+1F17C", "U+1F17D", "U+1F17E", "U+1F17F", "U+1F180",
      "U+1F181", "U+1F182", "U+1F183", "U+1F184", "U+1F185", "U+1F186",
      "U+1F187", "U+1F188", "U+1F189" }

\* the case-ignorable characters
CaseIgnorable ==
    { "'", ".", ":", "^", "U+0060", "¨", "­", "¯", "´", "·", "¸", "U+02B0",
      "U+02B1", "U+02B2", "U+02B3", "U+02B4", "U+02B5", "U+02B6", "U+02B7",
      "U+02B8", "U+02B9", "U+02BA", "U+02BB", "U+02BC", "U+02BD", "U+02BE",
      "U+02BF", "U+02C0", "U+02C1", "U+02C2", "U+02C3", "U+02C4", "U+02C5",
      "U+02C6", "U+02C7", "U+02C8", "U+02C9", "U+02CA", "U+02CB", "U+02CC",
      "U+02CD", "U+02CE", "U+02CF", "U+02D0", "U+02D1", "U+02D2", "U+02D3",
      "U+02D4", "U+02D5", "U+02D6", "U+02D7", "U+02D8", "U+02D9", "U+02DA",
      "U+02DB", "U+02DC", "U+02DD", "U+02DE", "U+02DF", "U+02E0", "U+02E1",
      "U+02E2", "U+02E3", "U+02E4", "U+02E5", "U+02E6", "U+02E7", "U+02E8",
      "U+02E9", "U+02EA", "U+02EB", "U+02EC", "U+02ED", "U+02EE", "U+02EF",
      "U+02F0", "U+02F1", "U+02F2", "U+02F3", "U+02F4", "U+02F5", "U+02F6",
      "U+02F7", "U+02F8", "U+02F9", "U+02FA", "U+02FB", "U+02FC", "U+02FD",
      "U+02FE", "U+02FF", "U+0300", "U+0301", "U+0302", "U+0303", "U+0304",
      "U+0305", "U+0306", "U+0307", "U+0308", "U+0309", "U+030A", "U+030B",
      "U+030C", "U+030D", "U+030E", "U+030F", "U+0310", "U+0311", "U+0312",
      "U+0313", "U+0314", "U+0315", "U+0316", "U+0317", "U+0318", "U+0319",
      "U+031A", "U+031B", "U+031C", "U+031D", "U+031E", "U+031F", "U+0320",
      "U+0321", "U+0322", "U+0323", "U+0324", "U+0325", "U+0326", "U+0327",
      "U+0328", "U+0329", "U+032A", "U+032B", "U+032C", "U+032D", "U+032E",
      "U+032F", "U+0330", "U+0331", "U+0332", "U+0333", "U+0334", "U+0335",
      "U+0336", "U+0337", "U+0338", "U+0339", "U+033A", "U+033B", "U+033C",
      "U+033D", "U+033E", "U+033F", "U+0340", "U+0341", "U+0342", "U+0343",
      "U+0344", "U+0345", "U+0346", "U+0347", "U+0348", "U+0349", "U+034A",
      "U+034B", "U+034C", "U+034D", "U+034E", "U+034F", "U+0350", "U+0351",
      "U+0352", "U+0353", "U+0354", "U+0355", "U+0356", "U+0357", "U+0358",
      "U+0359", "U+035A", "U+035B", "U+035C", "U+035D", "U+035E", "U+035F",
      "U+0360", "U+0361", "U+0362", "U+0363", "U+0364", "U+0365", "U+0366",
      "U+0367", "U+0368", "U+0369", "U+036A", "U+036B", "U+036C", "U+036D",
      "U+036E", "U+036F", "U+0374", "U+0375", "U+037A", "U+0384", "U+0385",
      "U+0387", "U+0483", "U+0484", "U+0485", "U+0486", "U+0487", "U+0488",
      "U+0489", "U+0559", "U+055F", "U+0591", "U+0592", "U+0593", "U+0594",
      "U+0595", "U+0596", "U+0597", "U+0598", "U+0599", "U+059A", "U+059B",
      "U+059C", "U+059D", "U+059E", "U+059F", "U+05A0", "U+05A1", "U+05A2",
      "U+05A3", "U+05A4", "U+05A5", "U+05A6", "U+05A7", "U+05A8", "U+05A9",
      "U+05AA", "U+05AB", "U+05AC", "U+05AD", "U+05AE", "U+05AF", "U+05B0",
      "U+05B1", "U+05B2", "U+05B3", "U+05B4", "U+05B5", "U+05B6", "U+05B7",
      "U+05B8", "U+05B9", "U+05BA", "U+05BB", "U+05BC", "U+05BD", "U+05BF",
      "U+05C1", "U+05C2", "U+05C4", "U+05C5", "U+05C7", "U+05F4", "U+0600",
      "U+0601", "U+0602", "U+0603", "U+0604", "U+0605", "U+0610", "U+0611",
      "U+0612", "U+0613", "U+0614", "U+0615", "U+0616", "U+0617", "U+0618",
      "U+0619", "U+061A", "U+061C", "U+0640", "U+064B", "U+064C", "U+064D",
      "U+064E", "U+064F", "U+0650", "U+0651", "U+0652", "U+0653", "U+0654",
      "U+0655", "U+0656", "U+0657", "U+0658", "U+0659", "U+065A", "U+065B",
      "U+065C", "U+065D", "U+065E", "U+065F", "U+0670", "U+06D6", "U+06D7",
      "U+06D8", "U+06D9", "U+06DA", "U+06DB", "U+06DC", "U+06DD", "U+06DF",
      "U+06E0", "U+06E1", "U+06E2", "U+06E3", "U+06E4", "U+06E5", "U+06E6",
      "U+06E7", "U+06E8", "U+06EA", "U+06EB", "U+06EC", "U+06ED", "U+070F",
      "U+0711", "U+0730", "U+0731", "U+0732", "U+0733", "U+0734", "U+0735",
      "U+0736", "U+0737", "U+0738", "U+0739", "U+073A", "U+073B", "U+073C",
      "U+073D", "U+073E", "U+073F", "U+0740", "U+0741", "U+0742", "U+0743",
      "U+0744", "U+0745", "U+0746", "U+0747", "U+0748", "U+0749", "U+074A",
      "U+07A6", "U+07A7", "U+07A8", "U+07A9", "U+07AA", "U+07AB", "U+07AC",
      "U+07AD", "U+07AE", "U+07AF", "U+07B0", "U+07EB", "U+07EC", "U+07ED",
      "U+07EE", "U+07EF", "U+07F0", "U+07F1", "U+07F2", "U+07F3", "U+07F4",
      "U+07F5", "U+07FA", "U+07FD", "U+0816", "U+0817", "U+0818", "U+0819",
      "U+081A", "U+081B", "U+081C", "U+081D", "U+081E", "U+081F", "U+0820",
      "U+0821", "U+0822", "U+0823", "U+0824", "U+0825", "U+0826", "U+0827",
      "U+0828", "U+0829", "U+082A", "U+082B", "U+082C", "U+082D", "U+0859",
      "U+085A", "U+085B", "U+0888", "U+0890", "U+0891", "U+0898", "U+0899",
      "U+089A", "U+089B", "U+089C", "U+089D", "U+089E", "U+089F", "U+08C9",
      "U+08CA", "U+08CB", "U+08CC", "U+08CD", "U+08CE", "U+08CF", "U+08D0",
      "U+08D1", "U+08D2", "U+08D3", "U+08D4", "U+08D5", "U+08D6", "U+08D7",
      "U+08D8", "U+08D9", "U+08DA", "U+08DB", "U+08DC", "U+08DD", "U+08DE",
      "U+08DF", "U+08E0", "U+08E1", "U+08E2", "U+08E3", "U+08E4", "U+08E5",
      "U+08E6", "U+08E7", "U+08E8", "U+08E9", "U+08EA", "U+08EB", "U+08EC",
      "U+08ED", "U+08EE", "U+08EF", "U+08F0", "U+08F1", "U+08F2", "U+08F3",
      "U+08F4", "U+08F5", "U+08F6", "U+08F7", "U+08F8", "U+08F9", "U+08FA",
      "U+08FB", "U+08FC", "U+08FD", "U+08FE", "U+08FF", "U+0900", "U+0901",
      "U+0902", "U+093A", "U+093C", "U+0941", "U+0942", "U+0943", "U+0944",
      "U+0945", "U+0946", "U+0947", "U+0948", "U+094D", "U+0951", "U+0952",
      "U+0953", "U+0954", "U+0955", "U+0956", "U+0957", "U+0962", "U+0963",
      "U+0971", "U+0981", "U+09BC", "U+09C1", "U+09C2", "U+09C3", "U+09C4",
      "U+09CD", "U+09E2", "U+09E3", "U+09FE", "U+0A01", "U+0A02", "U+0A3C",
      "U+0A41", "U+0A42", "U+0A47", "U+0A48", "U+0A4B", "U+0A4C", "U+0A4D",
      "U+0A51", "U+0A70", "U+0A71", "U+0A75", "U+0A81", "U+0A82", "U+0ABC",
      "U+0AC1", "U+0AC2", "U+0AC3", "U+0AC4", "U+0AC5", "U+0AC7", "U+0AC8",
      "U+0ACD", "U+0AE2", "U+0AE3", "U+0AFA", "U+0AFB", "U+0AFC", "U+0AFD",
      "U+0AFE", "U+0AFF", "U+0B01", "U+0B3C", "U+0B3F", "U+0B41", "U+0B42",
      "U+0B43", "U+0B44", "U+0B4D", "U+0B55", "U+0B56", "U+0B62", "U+0B63",
      "U+0B82", "U+0BC0", "U+0BCD", "U+0C00", "U+0C04", "U+0C3C", "U+0C3E",
      "U+0C3F", "U+0C40", "U+0C46", "U+0C47", "U+0C48", "U+0C4A", "U+0C4B",
      "U+0C4C", "U+0C4D", "U+0C55", "U+0C56", "U+0C62", "U+0C63", "U+0C81",
      "U+0CBC", "U+0CBF", "U+0CC6", "U+0CCC", "U+0CCD", "U+0CE2", "U+0CE3",
      "U+0D00", "U+0D01", "U+0D3B", "U+0D3C", "U+0D41", "U+0D42", "U+0D43",
      "U+0D44", "U+0D4D", "U+0D62", "U+0D63", "U+0D81", "U+0DCA", "U+0DD2",
      "U+0DD3", "U+0DD4", "U+0DD6", "U+0E31", "U+0E34", "U+0E35", "U+0E36",
      "U+0E37", "U+0E38", "U+0E39", "U+0E3A", "U+0E46", "U+0E47", "U+0E48",
      "U+0E49", "U+0E4A", "U+0E4B", "U+0E4C", "U+0E4D", "U+0E4E", "U+0EB1",
      "U+0EB4", "U+0EB5", "U+0EB6", "U+0EB7", "U+0EB8", "U+0EB9", "U+0EBA",
      "U+0EBB", "U+0EBC", "U+0EC6", "U+0EC8", "U+0EC9", "U+0ECA", "U+0ECB",
      "U+0ECC", "U+0ECD", "U+0F18", "U+0F19", "U+0F35", "U+0F37", "U+0F39",
      "U+0F71", "U+0F72", "U+0F73", "U+0F74", "U+0F75", "U+0F76", "U+0F77",
      "U+0F78", "U+0F79", "U+0F7A", "U+0F7B", "U+0F7C", "U+0F7D", "U+0F7E",
      "U+0F80", "U+0F81", "U+0F82", "U+0F83", "U+0F84", "U+0F86", "U+0F87",
      "U+0F8D", "U+0F8E", "U+0F8F", "U+0F90", "U+0F91", "U+0F92", "U+0F93",
      "U+0F94", "U+0F95", "U+0F96", "U+0F97", "U+0F99", "U+0F9A", "U+0F9B",
      "U+0F9C", "U+0F9D", "U+0F9E", "U+0F9F", "U+0FA0", "U+0FA1", "U+0FA2",
      "U+0FA3", "U+0FA4", "U+0FA5", "U+0FA6", "U+0FA7", "U+0FA8", "U+0FA9",
      "U+0FAA", "U+0FAB", "U+0FAC", "U+0FAD", "U+0FAE", "U+0FAF", "U+0FB0",
      "U+0FB1", "U+0FB2", "U+0FB3", "U+0FB4", "U+0FB5", "U+0FB6", "U+0FB7",
      "U+0FB8", "U+0FB9", "U+0FBA", "U+0FBB", "U+0FBC", "U+0FC6", "U+102D",
      "U+102E", "U+102F", "U+1030", "U+1032", "U+1033", "U+1034", "U+1035",
      "U+1036", "U+1037", "U+1039", "U+103A", "U+103D", "U+103E", "U+1058",
      "U+1059", "U+105E", "U+105F", "U+1060", "U+1071", "U+1072", "U+1073",
      "U+1074", "U+1082", "U+1085", "U+1086", "U+108D", "U+109D", "U+10FC",
      "U+135D", "U+135E", "U+135F", "U+1712", "U+1713", "U+1714", "U+1732",
      "U+1733", "U+1752", "U+1753", "U+1772", "U+1773", "U+17B4", "U+17B5",
      "U+17B7", "U+17B8", "U+17B9", "U+17BA", "U+17BB", "U+17BC", "U+17BD",
      "U+17C6", "U+17C9", "U+17CA", "U+17CB", "U+17CC", "U+17CD", "U+17CE",
      "U+17CF", "U+17D0", "U+17D1", "U+17D2", "U+17D3", "U+17D7", "U+17DD",
      "U+180B", "U+180C", "U+180D", "U+180E", "U+180F", "U+1843", "U+1885",
      "U+1886", "U+18A9", "U+1920", "U+1921", "U+1922", "U+1927", "U+1928",
      "U+1932", "U+1939", "U+193A", "U+193B", "U+1A17", "U+1A18", "U+1A1B",
      "U+1A56", "U+1A58", "U+1A59", "U+1A5A", "U+1A5B", "U+1A5C", "U+1A5D",
      "U+1A5E", "U+1A60", "U+1A62", "U+1A65", "U+1A66", "U+1A67", "U+1A68",
      "U+1A69", "U+1A6A", "U+1A6B", "U+1A6C", "U+1A73", "U+1A74", "U+1A75",
      "U+1A76", "U+1A77", "U+1A78", "U+1A79", "U+1A7A", "U+1A7B", "U+1A7C",
      "U+1A7F", "U+1AA7", "U+1AB0", "U+1AB1", "U+1AB2", "U+1AB3", "U+1AB4",
      "U+1AB5", "U+1AB6", "U+1AB7", "U+1AB8", "U+1AB9", "U+1ABA", "U+1ABB",
      "U+1ABC", "U+1ABD", "U+1ABE", "U+1ABF", "U+1AC0", "U+1AC1", "U+1AC2",
      "U+1AC3", "U+1AC4", "U+1AC5", "U+1AC6", "U+1AC7", "U+1AC8", "U+1AC9",
      "U+1ACA", "U+1ACB", "U+1ACC", "U+1ACD", "U+1ACE", "U+1B00", "U+1B01",
      "U+1B02", "U+1B03", "U+1B34", "U+1B36", "U+1B37", "U+1B38", "U+1B39",
      "U+1B3A", "U+1B3C", "U+1B42", "U+1B6B", "U+1B6C", "U+1B6D", "U+1B6E",
      "U+1B6F", "U+1B70", "U+1B71", "U+1B72", "U+1B73", "U+1B80", "U+1B81",
      "U+1BA2", "U+1BA3", "U+1BA4", "U+1BA5", "U+1BA8", "U+1BA9", "U+1BAB",
      "U+1BAC", "U+1BAD", "U+1BE6", "U+1BE8", "U+1BE9", "U+1BED", "U+1BEF",
      "U+1BF0", "U+1BF1", "U+1C2C", "U+1C2D", "U+1C2E", "U+1C2F", "U+1C30",
      "U+1C31", "U+1C32", "U+1C33", "U+1C36", "U+1C37", "U+1C78", "U+1C79",
      "U+1C7A", "U+1C7B", "U+1C7C", "U+1C7D", "U+1CD0", "U+1CD1", "U+1CD2",
      "U+1CD4", "U+1CD5", "U+1CD6", "U+1CD7", "U+1CD8", "U+1CD9", "U+1CDA",
      "U+1CDB", "U+1CDC", "U+1CDD", "U+1CDE", "U+1CDF", "U+1CE0", "U+1CE2",
      "U+1CE3", "U+1CE4", "U+1CE5", "U+1CE6", "U+1CE7", "U+1CE8", "U+1CED",
      "U+1CF4", "U+1CF8", "U+1CF9", "U+1D2C", "U+1D2D", "U+1D2E", "U+1D2F",
      "U+1D30", "U+1D31", "U+1D32", "U+1D33", "U+1D34", "U+1D35", "U+1D36",
      "U+1D37", "U+1D38", "U+1D39", "U+1D3A", "U+1D3B", "U+1D3C", "U+1D3D",
      "U+1D3E", "U+1D3F", "U+1D40", "U+1D41", "U+1D42", "U+1D43", "U+1D44",
      "U+1D45", "U+1D46", "U+1D47", "U+1D48", "U+1D49", "U+1D4A", "U+1D4B",
      "U+1D4C", "U+1D4D", "U+1D4E", "U+1D4F", "U+1D50", "U+1D51", "U+1D52",
      "U+1D53", "U+1D54", "U+1D55", "U+1D56", "U+1D57", "U+1D58", "U+1D59",
      "U+1D5A", "U+1D5B", "U+1D5C", "U+1D5D", "U+1D5E", "U+1D5F", "U+1D60",
      "U+1D61", "U+1D62", "U+1D63", "U+1D64", "U+1D65", "U+1D66", "U+1D67",
      "U+1D68", "U+1D69", "U+1D6A", "U+1D78", "U+1D9B", "U+1D9C", "U+1D9D",
      "U+1D9E", "U+1D9F", "U+1DA0", "U+1DA1", "U+1DA2", "U+1DA3", "U+1DA4",
      "U+1DA5", "U+1DA6", "U+1DA7", "U+1DA8", "U+1DA9", "U+1DAA", "U+1DAB",
      "U+1DAC", "U+1DAD", "U+1DAE", "U+1DAF", "U+1DB0", "U+1DB1", "U+1DB2",
      "U+1DB3", "U+1DB4", "U+1DB5", "U+1DB6", "U+1DB7", "U+1DB8", "U+1DB9",
      "U+1DBA", "U+1DBB", "U+1DBC", "U+1DBD", "U+1DBE", "U+1DBF", "U+1DC0",
      "U+1DC1", "U+1DC2", "U+1DC3", "U+1DC4", "U+1DC5", "U+1DC6", "U+1DC7",
      "U+1DC8", "U+1DC9", "U+1DCA", "U+1DCB", "U+1DCC", "U+1DCD", "U+1DCE",
      "U+1DCF", "U+1DD0", "U+1DD1", "U+1DD2", "U+1DD3", "U+1DD4", "U+1DD5",
      "U+1DD6", "U+1DD7", "U+1DD8", "U+1DD9", "U+1DDA", "U+1DDB", "U+1DDC",
      "U+1DDD", "U+1DDE", "U+1DDF", "U+1DE0", "U+1DE1", "U+1DE2", "U+1DE3",
      "U+1DE4", "U+1DE5", "U+1DE6", "U+1DE7", "U+1DE8", "U+1DE9", "U+1DEA",
      "U+1DEB", "U+1DEC", "U+1DED", "U+1DEE", "U+1DEF", "U+1DF0", "U+1DF1",
      "U+1DF2", "U+1DF3", "U+1DF4", "U+1DF5", "U+1DF6", "U+1DF7", "U+1DF8",
      "U+1DF9", "U+1DFA", "U+1DFB", "U+1DFC", "U+1DFD", "U+1DFE", "U+1DFF",
      "U+1FBD", "U+1FBF", "U+1FC0", "U+1FC1", "U+1FCD", "U+1FCE", "U+1FCF",
      "U+1FDD", "U+1FDE", "U+1FDF", "U+1FED", "U+1FEE", "U+1FEF", "U+1FFD",
      "U+1FFE", "U+200B", "U+200C", "U+200D", "U+200E", "U+200F", "U+2018",
      "U+2019", "U+2024", "U+2027", "U+202A", "U+202B", "U+202C", "U+202D",
      "U+202E", "U+2060", "U+2061", "U+2062", "U+2063", "U+2064", "U+2066",
      "U+2067", "U+2068", "U+2069", "U+206A", "U+206B", "U+206C", "U+206D",
      "U+206E", "U+206F", "U+2071", "U+207F", "U+2090", "U+2091", "U+2092",
      "U+2093", "U+2094", "U+2095", "U+2096", "U+2097", "U+2098", "U+2099",
      "U+209A", "U+209B", "U+209C", "U+20D0", "U+20D1", "U+20D2", "U+20D3",
      "U+20D4", "U+20D5", "U+20D6", "U+20D7", "U+20D8", "U+20D9", "U+20DA",
      "U+20DB", "U+20DC", "U+20DD", "U+20DE", "U+20DF", "U+20E0", "U+20E1",
      "U+20E2", "U+20E3", "U+20E4", "U+20E5", "U+20E6", "U+20E7", "U+20E8",
      "U+20E9", "U+20EA", "U+20EB", "U+20EC", "U+20ED", "U+20EE", "U+20EF",
      "U+20F0", "U+2C7C", "U+2C7D", "U+2CEF", "U+2CF0", "U+2CF1", "U+2D6F",
      "U+2D7F", "U+2DE0", "U+2DE1", "U+2DE2", "U+2DE3", "U+2DE4", "U+2DE5",
      "U+2DE6", "U+2DE7", "U+2DE8", "U+2DE9", "U+2DEA", "U+2DEB", "U+2DEC",
      "U+2DED", "U+2DEE", "U+2DEF", "U+2DF0", "U+2DF1", "U+2DF2", "U+2DF3",
      "U+2DF4", "U+2DF5", "U+2DF6", "U+2DF7", "U+2DF8", "U+2DF9", "U+2DFA",
      "U+2DFB", "U+2DFC", "U+2DFD", "U+2DFE", "U+2DFF", "U+2E2F", "U+3005",
      "U+302A", "U+302B", "U+302C", "U+302D", "U+3031", "U+3032", "U+3033",
      "U+3034", "U+3035", "U+303B", "U+3099", "U+309A", "U+309B", "U+309C",
      "U+309D", "U+309E", "U+30FC", "U+30FD", "U+30FE", "U+A015", "U+A4F8",
      "U+A4F9", "U+A4FA", "U+A4FB", "U+A4FC", "U+A4FD", "U+A60C", "U+A66F",
      "U+A670", "U+A671", "U+A672", "U+A674", "U+A675", "U+A676", "U+A677",
      "U+A678", "U+A679", "U+A67A", "U+A67B", "U+A67C", "U+A67D", "U+A67F",
      "U+A69C", "U+A69D", "U+A69E", "U+A69F", "U+A6F0", "U+A6F1", "U+A700",
      "U+A701", "U+A702", "U+A703", "U+A704", "U+A705", "U+A706", "U+A707",
      "U+A708", "U+A709", "U+A70A", "U+A70B", "U+A70C", "U+A70D", "U+A70E",
      "U+A70F", "U+A710", "U+A711", "U+A712", "U+A713", "U+A714", "U+A715",
      "U+A716", "U+A717", "U+A718", "U+A719", "U+A71A", "U+A71B", "U+A71C",
      "U+A71D", "U+A71E", "U+A71F", "U+A720", "U+A721", "U+A770", "U+A788",
      "U+A789", "U+A78A", "U+A7F2", "U+A7F3", "U+A7F4", "U+A7F8", "U+A7F9",
      "U+A802", "U+A806", "U+A80B", "U+A825", "U+A826", "U+A82C", "U+A8C4",
      "U+A8C5", "U+A8E0", "U+A8E1", "U+A8E2", "U+A8E3", "U+A8E4", "U+A8E5",
      "U+A8E6", "U+A8E7", "U+A8E8", "U+A8E9", "U+A8EA", "U+A8EB", "U+A8EC",
      "U+A8ED", "U+A8EE", "U+A8EF", "U+A8F0", "U+A8F1", "U+A8FF", "U+A926",
      "U+A927", "U+A928", "U+A929", "U+A92A", "U+A92B", "U+A92C", "U+A92D",
      "U+A947", "U+A948", "U+A949", "U+A94A", "U+A94B", "U+A94C", "U+A94D",
      "U+A94E", "U+A94F", "U+A950", "U+A951", "U+A980", "U+A981", "U+A982",
      "U+A9B3", "U+A9B6", "U+A9B7", "U+A9B8", "U+A9B9", "U+A9BC", "U+A9BD",
      "U+A9CF", "U+A9E5", "U+A9E6", "U+AA29", "U+AA2A", "U+AA2B", "U+AA2C",
      "U+AA2D", "U+AA2E", "U+AA31", "U+AA32", "U+AA35", "U+AA36", "U+AA43",
      "U+AA4C", "U+AA70", "U+AA7C", "U+AAB0", "U+AAB2", "U+AAB3", "U+AAB4",
      "U+AAB7", "U+AAB8", "U+AABE", "U+AABF", "U+AAC1", "U+AADD", "U+AAEC",
      "U+AAED", "U+AAF3", "U+AAF4", "U+AAF6", "U+AB5B", "U+AB5C", "U+AB5D",
      "U+AB5E", "U+AB5F", "U+AB69", "U+AB6A", "U+AB6B", "U+ABE5", "U+ABE8",
      "U+ABED", "U+FB1E", "U+FBB2", "U+FBB3", "U+FBB4", "U+FBB5", "U+FBB6",
      "U+FBB7", "U+FBB8", "U+FBB9", "U+FBBA", "U+FBBB", "U+FBBC", "U+FBBD",
      "U+FBBE", "U+FBBF", "U+FBC0", "U+FBC1", "U+FBC2", "U+FE00", "U+FE01",
      "U+FE02", "U+FE03", "U+FE04", "U+FE05", "U+FE06", "U+FE07", "U+FE08",
      "U+FE09", "U+FE0A", "U+FE0B", "U+FE0C", "U+FE0D", "U+FE0E", "U+FE0F",
      "U+FE13", "U+FE20", "U+FE21", "U+FE22", "U+FE23", "U+FE24", "U+FE25",
      "U+FE26", "U+FE27", "U+FE28", "U+FE29", "U+FE2A", "U+FE2B", "U+FE2C",
      "U+FE2D", "U+FE2E", "U+FE2F", "U+FE52", "U+FE55", "U+FEFF", "U+FF07",
      "U+FF0E", "U+FF1A", "U+FF3E", "U+FF40", "U+FF70", "U+FF9E", "U+FF9F",
      "U+FFE3", "U+FFF9", "U+FFFA", "U+FFFB", "U+101FD", "U+102E0",
      "U+10376", "U+10377", "U+10378", "U+10379", "U+1037A", "U+10780",
      "U+10781", "U+10782", "U+10783", "U+10784", "U+10785", "U+10787",
      "U+10788", "U+10789", "U+1078A", "U+1078B", "U+1078C", "U+1078D",
      "U+1078E", "U+1078F", "U+10790", "U+10791", "U+10792", "U+10793",
      "U+10794", "U+10795", "U+10796", "U+10797", "U+10798", "U+10799",
      "U+1079A", "U+1079B", "U+1079C", "U+1079D", "U+1079E", "U+1079F",
      "U+107A0", "U+107A1", "U+107A2", "U+107A3", "U+107A4", "U+107A5",
      "U+107A6", "U+107A7", "U+107A8", "U+107A9", "U+107AA", "U+107AB",
      "U+107AC", "U+107AD", "U+107AE", "U+107AF", "U+107B0", "U+107B2",
      "U+107B3", "U+107B4", "U+107B5", "U+107B6", "U+107B7", "U+107B8",
      "U+107B9", "U+107BA", "U+10A01", "U+10A02", "U+10A03", "U+10A05",
      "U+10A06", "U+10A0C", "U+10A0D", "U+10A0E", "U+10A0F", "U+10A38",
      "U+10A39", "U+10A3A", "U+10A3F", "U+10AE5", "U+10AE6", "U+10D24",
      "U+10D25", "U+10D26", "U+10D27", "U+10EAB", "U+10EAC", "U+10F46",
      "U+10F47", "U+10F48", "U+10F49", "U+10F4A", "U+10F4B", "U+10F4C",
      "U+10F4D", "U+10F4E", "U+10F4F", "U+10F50", "U+10F82", "U+10F83",
      "U+10F84", "U+10F85", "U+11001", "U+11038", "U+11039", "U+1103A",
      "U+1103B", "U+1103C", "U+1103D", "U+1103E", "U+1103F", "U+11040",
      "U+11041", "U+11042", "U+11043", "U+11044", "U+11045", "U+11046",
      "U+11070", "U+11073", "U+11074", "U+1107F", "U+11080", "U+11081",
      "U+110B3", "U+110B4", "U+110B5", "U+110B6", "U+110B9", "U+110BA",
      "U+110BD", "U+110C2", "U+110CD", "U+11100", "U+11101", "U+11102",
      "U+11127", "U+11128", "U+11129", "U+1112A", "U+1112B", "U+1112D",
      "U+1112E", "U+1112F", "U+11130", "U+11131", "U+11132", "U+11133",
      "U+11134", "U+11173", "U+11180", "U+11181", "U+111B6", "U+111B7",
      "U+111B8", "U+111B9", "U+111BA", "U+111BB", "U+111BC", "U+111BD",
      "U+111BE", "U+111C9", "U+111CA", "U+111CB", "U+111CC", "U+111CF",
      "U+1122F", "U+11230", "U+11231", "U+11234", "U+11236", "U+11237",
      "U+1123E", "U+112DF", "U+112E3", "U+112E4", "U+112E5", "U+112E6",
      "U+112E7", "U+112E8", "U+112E9", "U+112EA", "U+11300", "U+11301",
      "U+1133B", "U+1133C", "U+11340", "U+11366", "U+11367", "U+11368",
      "U+11369", "U+1136A", "U+1136B", "U+1136C", "U+11370", "U+11371",
      "U+11372", "U+11373", "U+11374", "U+11438", "U+11439", "U+1143A",
      "U+1143B", "U+1143C", "U+1143D", "U+1143E", "U+1143F", "U+11442",
      "U+11443", "U+11444", "U+11446", "U+1145E", "U+114B3", "U+114B4",
      "U+114B5", "U+114B6", "U+114B7", "U+114B8", "U+114BA", "U+114BF",
      "U+114C0", "U+114C2", "U+114C3", "U+115B2", "U+115B3", "U+115B4",
      "U+115B5", "U+115BC", "U+115BD", "U+115BF", "U+115C0", "U+115DC",
      "U+115DD", "U+11633", "U+11634", "U+11635", "U+11636", "U+11637",
      "U+11638", "U+11639", "U+1163A", "U+1163D", "U+1163F", "U+11640",
      "U+116AB", "U+116AD", "U+116B0", "U+116B1", "U+116B2", "U+116B3",
      "U+116B4", "U+116B5", "U+116B7", "U+1171D", "U+1171E", "U+1171F",
      "U+11722", "U+11723", "U+11724", "U+11725", "U+11727", "U+11728",
      "U+11729", "U+1172A", "U+1172B", "U+1182F", "U+11830", "U+11831",
      "U+11832", "U+11833", "U+11834", "U+11835", "U+11836", "U+11837",
      "U+11839", "U+1183A", "U+1193B", "U+1193C", "U+1193E", "U+11943",
      "U+119D4", "U+119D5", "U+119D6", "U+119D7", "U+119DA", "U+119DB",
      "U+119E0", "U+11A01", "U+11A02", "U+11A03", "U+11A04", "U+11A05",
      "U+11A06", "U+11A07", "U+11A08", "U+11A09", "U+11A0A", "U+11A33",
      "U+11A34", "U+11A35", "U+11A36", "U+11A37", "U+11A38", "U+11A3B",
      "U+11A3C", "U+11A3D", "U+11A3E", "U+11A47", "U+11A51", "U+11A52",
      "U+11A53", "U+11A54", "U+11A55", "U+11A56", "U+11A59", "U+11A5A",
      "U+11A5B", "U+11A8A", "U+11A8B", "U+11A8C", "U+11A8D", "U+11A8E",
      "U+11A8F", "U+11A90", "U+11A91", "U+11A92", "U+11A93", "U+11A94",
      "U+11A95", "U+11A96", "U+11A98", "U+11A99", "U+11C30", "U+11C31",
      "U+11C32", "U+11C33", "U+11C34", "U+11C35", "U+11C36", "U+11C38",
      "U+11C39", "U+11C3A", "U+11C3B", "U+11C3C", "U+11C3D", "U+11C3F",
      "U+11C92", "U+11C93", "U+11C94", "U+11C95", "U+11C96", "U+11C97",
      "U+11C98", "U+11C99", "U+11C9A", "U+11C9B", "U+11C9C", "U+11C9D",
      "U+11C9E", "U+11C9F", "U+11CA0", "U+11CA1", "U+11CA2", "U+11CA3",
      "U+11CA4", "U+11CA5", "U+11CA6", "U+11CA7", "U+11CAA", "U+11CAB",
      "U+11CAC", "U+11CAD", "U+11CAE", "U+11CAF", "U+11CB0", "U+11CB2",
      "U+11CB3", "U+11CB5", "U+11CB6", "U+11D31", "U+11D32", "U+11D33",
      "U+11D34", "U+11D35", "U+11D36", "U+11D3A", "U+11D3C", "U+11D3D",
      "U+11D3F", "U+11D40", "U+11D41", "U+11D42", "U+11D43", "U+11D44",
      "U+11D45", "U+11D47", "U+11D90", "U+11D91", "U+11D95", "U+11D97",
      "U+11EF3", "U+11EF4", "U+13430", "U+13431", "U+13432", "U+13433",
      "U+13434", "U+13435", "U+13436", "U+13437", "U+13438", "U+16AF0",
      "U+16AF1", "U+16AF2", "U+16AF3", "U+16AF4", "U+16B30", "U+16B31",
      "U+16B32", "U+16B33", "U+16B34", "U+16B35", "U+16B36", "U+16B40",
      "U+16B41", "U+16B42", "U+16B43", "U+16F4F", "U+16F8F", "U+16F90",
      "U+16F91", "U+16F92", "U+16F93", "U+16F94", "U+16F95", "U+16F96",
      "U+16F97", "U+16F98", "U+16F99", "U+16F9A", "U+16F9B", "U+16F9C",
      "U+16F9D", "U+16F9E", "U+16F9F", "U+16FE0", "U+16FE1", "U+16FE3",
      "U+16FE4", "U+1AFF0", "U+1AFF1", "U+1AFF2", "U+1AFF3", "U+1AFF5",
      "U+1AFF6", "U+1AFF7", "U+1AFF8", "U+1AFF9", "U+1AFFA", "U+1AFFB",
      "U+1AFFD", "U+1AFFE", "U+1BC9D", "U+1BC9E", "U+1BCA0", "U+1BCA1",
      "U+1BCA2", "U+1BCA3", "U+1CF00", "U+1CF01", "U+1CF02", "U+1CF03",
      "U+1CF04", "U+1CF05", "U+1CF06", "U+1CF07", "U+1CF08", "U+1CF09",
      "U+1CF0A", "U+1CF0B", "U+1CF0C", "U+1CF0D", "U+1CF0E", "U+1CF0F",
      "U+1CF10", "U+1CF11", "U+1CF12", "U+1CF13", "U+1CF14", "U+1CF15",
      "U+1CF16", "U+1CF17", "U+1CF18", "U+1CF19", "U+1CF1A", "U+1CF1B",
      "U+1CF1C", "U+1CF1D", "U+1CF1E", "U+1CF1F", "U+1CF20", "U+1CF21",
      "U+1CF22", "U+1CF23", "U+1CF24", "U+1CF25", "U+1CF26", "U+1CF27",
      "U+1CF28", "U+1CF29", "U+1CF2A", "U+1CF2B", "U+1CF2C", "U+1CF2D",
      "U+1CF30", "U+1CF31", "U+1CF32", "U+1CF33", "U+1CF34", "U+1CF35",
      "U+1CF36", "U+1CF37", "U+1CF38", "U+1CF39", "U+1CF3A", "U+1CF3B",
      "U+1CF3C", "U+1CF3D", "U+1CF3E", "U+1CF3F", "U+1CF40", "U+1CF41",
      "U+1CF42", "U+1CF43", "U+1CF44", "U+1CF45", "U+1CF46", "U+1D167",
      "U+1D168", "U+1D169", "U+1D173", "U+1D174", "U+1D175", "U+1D176",
      "U+1D177", "U+1D178", "U+1D179", "U+1D17A", "U+1D17B", "U+1D17C",
      "U+1D17D", "U+1D17E", "U+1D17F", "U+1D180", "U+1D181", "U+1D182",
      "U+1D185", "U+1D186", "U+1D187", "U+1D188", "U+1D189", "U+1D18A",
      "U+1D18B", "U+1D1AA", "U+1D1AB", "U+1D1AC", "U+1D1AD", "U+1D242",
      "U+1D243", "U+1D244", "U+1DA00", "U+1DA01", "U+1DA02", "U+1DA03",
      "U+1DA04", "U+1DA05", "U+1DA06", "U+1DA07", "U+1DA08", "U+1DA09",
      "U+1DA0A", "U+1DA0B", "U+1DA0C", "U+1DA0D", "U+1DA0E", "U+1DA0F",
      "U+1DA10", "U+1DA11", "U+1DA12", "U+1DA13", "U+1DA14", "U+1DA15",
      "U+1DA16", "U+1DA17", "U+1DA18", "U+1DA19", "U+1DA1A", "U+1DA1B",
      "U+1DA1C", "U+1DA1D", "U+1DA1E", "U+1DA1F", "U+1DA20", "U+1DA21",
      "U+1DA22", "U+1DA23", "U+1DA24", "U+1DA25", "U+1DA26", "U+1DA27",
      "U+1DA28", "U+1DA29", "U+1DA2A", "U+1DA2B", "U+1DA2C", "U+1DA2D",
      "U+1DA2E", "U+1DA2F", "U+1DA30", "U+1DA31", "U+1DA32", "U+1DA33",
      "U+1DA34", "U+1DA35", "U+1DA36", "U+1DA3B", "U+1DA3C", "U+1DA3D",
      "U+1DA3E", "U+1DA3F", "U+1DA40", "U+1DA41", "U+1DA42", "U+1DA43",
      "U+1DA44", "U+1DA45", "U+1DA46", "U+1DA47", "U+1DA48", "U+1DA49",
      "U+1DA4A", "U+1DA4B", "U+1DA4C", "U+1DA4D", "U+1DA4E", "U+1DA4F",
      "U+1DA50", "U+1DA51", "U+1DA52", "U+1DA53", "U+1DA54", "U+1DA55",
      "U+1DA56", "U+1DA57", "U+1DA58", "U+1DA59", "U+1DA5A", "U+1DA5B",
      "U+1DA5C", "U+1DA5D", "U+1DA5E", "U+1DA5F", "U+1DA60", "U+1DA61",
      "U+1DA62", "U+1DA63", "U+1DA64", "U+1DA65", "U+1DA66", "U+1DA67",
      "U+1DA68", "U+1DA69", "U+1DA6A", "U+1DA6B", "U+1DA6C", "U+1DA75",
      "U+1DA84", "U+1DA9B", "U+1DA9C", "U+1DA9D", "U+1DA9E", "U+1DA9F",
      "U+1DAA1", "U+1DAA2", "U+1DAA3", "U+1DAA4", "U+1DAA5", "U+1DAA6",
      "U+1DAA7", "U+1DAA8", "U+1DAA9", "U+1DAAA", "U+1DAAB", "U+1DAAC",
      "U+1DAAD", "U+1DAAE", "U+1DAAF", "U+1E000", "U+1E001", "U+1E002",
      "U+1E003", "U+1E004", "U+1E005", "U+1E006", "U+1E008", "U+1E009",
      "U+1E00A", "U+1E00B", "U+1E00C", "U+1E00D", "U+1E00E", "U+1E00F",
      "U+1E010", "U+1E011", "U+1E012", "U+1E013", "U+1E014", "U+1E015",
      "U+1E016", "U+1E017", "U+1E018", "U+1E01B", "U+1E01C", "U+1E01D",
      "U+1E01E", "U+1E01F", "U+1E020", "U+1E021", "U+1E023", "U+1E024",
      "U+1E026", "U+1E027", "U+1E028", "U+1E029", "U+1E02A", "U+1E130",
      "U+1E131", "U+1E132", "U+1E133", "U+1E134", "U+1E135", "U+1E136",
      "U+1E137", "U+1E138", "U+1E139", "U+1E13A", "U+1E13B", "U+1E13C",
      "U+1E13D", "U+1E2AE", "U+1E2EC", "U+1E2ED", "U+1E2EE", "U+1E2EF",
      "U+1E8D0", "U+1E8D1", "U+1E8D2", "U+1E8D3", "U+1E8D4", "U+1E8D5",
      "U+1E8D6", "U+1E944", "U+1E945", "U+1E946", "U+1E947", "U+1E948",
      "U+1E949", "U+1E94A", "U+1E94B", "U+1F3FB", "U+1F3FC", "U+1F3FD",
      "U+1F3FE", "U+1F3FF", "U+E0001", "U+E0020", "U+E0021", "U+E0022",
      "U+E0023", "U+E0024", "U+E0025", "U+E0026", "U+E0027", "U+E0028",
      "U+E0029", "U+E002A", "U+E002B", "U+E002C", "U+E002D", "U+E002E",
      "U+E002F", "U+E0030", "U+E0031", "U+E0032", "U+E0033", "U+E0034",
      "U+E0035", "U+E0036", "U+E0037", "U+E0038", "U+E0039", "U+E003A",
      "U+E003B", "U+E003C", "U+E003D", "U+E003E", "U+E003F", "U+E0040",
      "U+E0041", "U+E0042", "U+E0043", "U+E0044", "U+E0045", "U+E0046",
      "U+E0047", "U+E0048", "U+E0049", "U+E004A", "U+E004B", "U+E004C",
      "U+E004D", "U+E004E", "U+E004F", "U+E0050", "U+E0051", "U+E0052",
      "U+E0053", "U+E0054", "U+E0055", "U+E0056", "U+E0057", "U+E0058",
      "U+E0059", "U+E005A", "U+E005B", "U+E005C", "U+E005D", "U+E005E",
      "U+E005F", "U+E0060", "U+E0061", "U+E0062", "U+E0063", "U+E0064",
      "U+E0065", "U+E0066", "U+E0067", "U+E0068", "U+E0069", "U+E006A",
      "U+E006B", "U+E006C", "U+E006D", "U+E006E", "U+E006F", "U+E0070",
      "U+E0071", "U+E0072", "U+E0073", "U+E0074", "U+E0075", "U+E0076",
      "U+E0077", "U+E0078", "U+E0079", "U+E007A", "U+E007B", "U+E007C",
      "U+E007D", "U+E007E", "U+E007F", "U+E0100", "U+E0101", "U+E0102",
      "U+E0103", "U+E0104", "U+E0105", "U+E0106", "U+E0107", "U+E0108",
      "U+E0109", "U+E010A", "U+E010B", "U+E010C", "U+E010D", "U+E010E",
      "U+E010F", "U+E0110", "U+E0111", "U+E0112", "U+E0113", "U+E0114",
      "U+E0115", "U+E0116", "U+E0117", "U+E0118", "U+E0119", "U+E011A",
      "U+E011B", "U+E011C", "U+E011D", "U+E011E", "U+E011F", "U+E0120",
      "U+E0121", "U+E0122", "U+E0123", "U+E0124", "U+E0125", "U+E0126",
      "U+E0127", "U+E0128", "U+E0129", "U+E012A", "U+E012B", "U+E012C",
      "U+E012D", "U+E012E", "U+E012F", "U+E0130", "U+E0131", "U+E0132",
      "U+E0133", "U+E0134", "U+E0135", "U+E0136", "U+E0137", "U+E0138",
      "U+E0139", "U+E013A", "U+E013B", "U+E013C", "U+E013D", "U+E013E",
      "U+E013F", "U+E0140", "U+E0141", "U+E0142", "U+E0143", "U+E0144",
      "U+E0145", "U+E0146", "U+E0147", "U+E0148", "U+E0149", "U+E014A",
      "U+E014B", "U+E014C", "U+E014D", "U+E014E", "U+E014F", "U+E0150",
      "U+E0151", "U+E0152", "U+E0153", "U+E0154", "U+E0155", "U+E0156",
      "U+E0157", "U+E0158", "U+E0159", "U+E015A", "U+E015B", "U+E015C",
      "U+E015D", "U+E015E", "U+E015F", "U+E0160", "U+E0161", "U+E0162",
      "U+E0163", "U+E0164", "U+E0165", "U+E0166", "U+E0167", "U+E0168",
      "U+E0169", "U+E016A", "U+E016B", "U+E016C", "U+E016D", "U+E016E",
      "U+E016F", "U+E0170", "U+E0171", "U+E0172", "U+E0173", "U+E0174",
      "U+E0175", "U+E0176", "U+E0177", "U+E0178", "U+E0179", "U+E017A",
      "U+E017B", "U+E017C", "U+E017D", "U+E017E", "U+E017F", "U+E0180",
      "U+E0181", "U+E0182", "U+E0183", "U+E0184", "U+E0185", "U+E0186",
      "U+E0187", "U+E0188", "U+E0189", "U+E018A", "U+E018B", "U+E018C",
      "U+E018D", "U+E018E", "U+E018F", "U+E0190", "U+E0191", "U+E0192",
      "U+E0193", "U+E0194", "U+E0195", "U+E0196", "U+E0197", "U+E0198",
      "U+E0199", "U+E019A", "U+E019B", "U+E019C", "U+E019D", "U+E019E",
      "U+E019F", "U+E01A0", "U+E01A1", "U+E01A2", "U+E01A3", "U+E01A4",
      "U+E01A5", "U+E01A6", "U+E01A7", "U+E01A8", "U+E01A9", "U+E01AA",
      "U+E01AB", "U+E01AC", "U+E01AD", "U+E01AE", "U+E01AF", "U+E01B0",
      "U+E01B1", "U+E01B2", "U+E01B3", "U+E01B4", "U+E01B5", "U+E01B6",
      "U+E01B7", "U+E01B8", "U+E01B9", "U+E01BA", "U+E01BB", "U+E01BC",
      "U+E01BD", "U+E01BE", "U+E01BF", "U+E01C0", "U+E01C1", "U+E01C2",
      "U+E01C3", "U+E01C4", "U+E01C5", "U+E01C6", "U+E01C7", "U+E01C8",
      "U+E01C9", "U+E01CA", "U+E01CB", "U+E01CC", "U+E01CD", "U+E01CE",
      "U+E01CF", "U+E01D0", "U+E01D1", "U+E01D2", "U+E01D3", "U+E01D4",
      "U+E01D5", "U+E01D6", "U+E01D7", "U+E01D8", "U+E01D9", "U+E01DA",
      "U+E01DB", "U+E01DC", "U+E01DD", "U+E01DE", "U+E01DF", "U+E01E0",
      "U+E01E1", "U+E01E2", "U+E01E3", "U+E01E4", "U+E01E5", "U+E01E6",
      "U+E01E7", "U+E01E8", "U+E01E9", "U+E01EA", "U+E01EB", "U+E01EC",
      "U+E01ED", "U+E01EE", "U+E01EF" }

\* Capital sigma at position i of s is a final sigma: the nearest character
\* before it that is not case-ignorable is cased, and the nearest one after
\* it, when there is one, is not.
FinalSigma(s, i) ==
    LET before == {j \in 1..(i - 1) : s[j] \notin CaseIgnorable}
        after == {j \in (i + 1)..Len(s) : s[j] \notin CaseIgnorable}
    IN  /\ before # {}
        /\ s[CHOOSE j \in before : \A k \in before : k <= j] \in Cased
        /\ after # {} => s[CHOOSE j \in after : \A k \in after : j <= k] \notin Cased

\* the concatenation of a sequence of strings
RECURSIVE Flatten(_)
Flatten(ss) == IF ss = <<>> THEN <<>> ELSE Head(ss) \o Flatten(Tail(ss))

Upper(s) == Flatten([i \in 1..Len(s) |-> UpperChar(s[i])])

\* str.lower(): capital sigma becomes the final or the medial small sigma
Lower(s) ==
    Flatten([i \in 1..Len(s) |->
                IF s[i] = "U+03A3"
                THEN (IF FinalSigma(s, i) THEN <<"U+03C2">> ELSE <<"U+03C3">>)
                ELSE LowerChar(s[i])])

\* the whitespace of str.strip() and of \s: tab, line feed, vertical tab,
\* form feed, carriage return, U+001C..U+001F, the blank, U+0085, U+00A0
Latin1WhiteSpace ==
    {"\t", "\n", "", "\f", "\r", "", "", "", "", " ", "", " "}

\* and the whitespace above U+00FF
WhiteSpaceMore ==
    { "U+1680", "U+2000", "U+2001", "U+2002", "U+2003", "U+2004", "U+2005",
      "U+2006", "U+2007", "U+2008", "U+2009", "U+200A", "U+2028", "U+2029",
      "U+202F", "U+205F", "U+3000" }

WhiteSpace == Latin1WhiteSpace \cup WhiteSpaceMore

IsSpace(c) == c \in WhiteSpace

\* str.strip(): drop leading and trailing whitespace
Strip(s) ==
    LET keep == {i \in 1..Len(s) : ~IsSpace(s[i])}
    IN  IF keep = {} THEN <<>>
        ELSE SubSeq(s, CHOOSE i \in keep : \A j \in keep : i <= j,
                       CHOOSE i \in keep : \A j \in keep : i >= j)

\* Python's  t in s  on strings
Contains(s, t) ==
    \E i \in 0..(Len(s) - Len(t)) : SubSeq(s, i + 1, i + Len(t)) = t

EndsWith(s, t) ==
    Len(s) >= Len(t) /\ SubSeq(s, Len(s) - Len(t) + 1, Len(s)) = t

\* the class [A-Z0-9] of line 17
IsUpperAlnum(c) == InSeq(c, AsciiUpper) \/ InSeq(c, DigitChars)

IsDigit(c) == InSeq(c, DigitChars)

DigitVal(c) == PosIn(c, DigitChars) - 1

\* the decimal digits of a natural number
RECURSIVE NatStr(_)
NatStr(n) == IF n < 10 THEN <<DigitChars[n + 1]>> ELSE NatStr(n \div 10) \o <<DigitChars[(n % 10) + 1]>>

(***************************************************************************)
(* Cells.  A cell is [k, v], v a string:                                   *)
(*   "str"       v is the text;                                            *)
(*   "int"       v is the decimal numeral, with "-" when negative;         *)
(*   "float"     v is the shortest decimal numeral that reads back as the  *)
(*               float, without exponent: digits, with "-" when negative   *)
(*               and with "." and the fraction when not a whole number;    *)
(*   "bool"      v is "1" for True and "0" for False;                      *)
(*   "time"      a datetime.time of whole seconds, v its digits HHMMSS;    *)
(*   "datetime"  a datetime or Timestamp, v its digits YYYYMMDDHHMMSS,     *)
(*               followed by the nine digits of its nanoseconds when the   *)
(*               second has a fraction, followed by its offset from UTC    *)
(*               as str() prints it ("+05:30") when it has a time zone;    *)
(*   "nan", "nat", "none"   the missing values NaN, NaT and None.          *)
(***************************************************************************)
StrCell(s) == [k |-> "str", v |-> s]

IntCell(digits) == [k |-> "int", v |-> digits]

FloatCell(digits) == [k |-> "float", v |-> digits]

BoolCell(b) == [k |-> "bool", v |-> IF b THEN <<"1">> ELSE <<"0">>]

TimeCell(hhmmss) == [k |-> "time", v |-> hhmmss]

DatetimeCell(digits) == [k |-> "datetime", v |-> digits]

NaN == [k |-> "nan", v |-> <<>>]

NaT == [k |-> "nat", v |-> <<>>]

None == [k |-> "none", v |-> <<>>]

\* pd.isna / pd.notna on a scalar
IsNa(c) == c.k \in {"nan", "nat", "none"}

\* s without its trailing zeros
RECURSIVE DropTrailingZeros(_)
DropTrailingZeros(s) ==
    IF s # <<>> /\ s[Len(s)] = "0" THEN DropTrailingZeros(SubSeq(s, 1, Len(s) - 1)) ELSE s

\* the number of zeros s starts with
RECURSIVE LeadingZeros(_)
LeadingZeros(s) == IF s # <<>> /\ s[1] = "0" THEN 1 + LeadingZeros(Tail(s)) ELSE 0

\* the exponent of float.__repr__: a sign and at least two digits
ExpStr(sign, n) == <<"e", sign>> \o (IF n < 10 THEN <<"0">> ELSE <<>>) \o NatStr(n)

\* the mantissa of float.__repr__ for the significant digits d
Mantissa(d) == IF Len(d) = 1 THEN d ELSE <<d[1], ".">> \o Tail(d)

\* float.__repr__ of the non-negative float with numeral m: a whole number
\* prints with ".0" below 1e16 and in exponent form from there, a fraction
\* prints as it is from 1e-4 and in exponent form below
FloatRepr(m) ==
    IF ~InSeq(".", m)
    THEN IF Len(m) <= 16 THEN m \o <<".", "0">>
         ELSE Mantissa(DropTrailingZeros(m)) \o ExpStr("+", Len(m) - 1)
    ELSE LET frac == SubSeq(m, PosIn(".", m) + 1, Len(m))
             z == LeadingZeros(frac)
         IN  IF SubSeq(m, 1, PosIn(".", m) - 1) = <<"0">> /\ z >= 4
             THEN Mantissa(SubSeq(frac, z + 1, Len(frac))) \o ExpStr("-", z + 1)
             ELSE m

\* str() of a datetime.time: HH:MM:SS
TimeStr(d) == <<d[1], d[2], ":", d[3], d[4], ":", d[5], d[6]>>

\* the date part of str() of a datetime: YYYY-MM-DD
DateStr(d) == <<d[1], d[2], d[3], d[4], "-", d[5], d[6], "-", d[7], d[8]>>

\* the nanoseconds of a datetime, nine digits
FractionOf(d) == IF Len(d) >= 23 /\ IsDigit(d[15]) THEN SubSeq(d, 15, 23) ELSE <<"0", "0", "0", "0", "0", "0", "0", "0", "0">>

\* the offset from UTC of a datetime with a time zone, else the empty string
ZoneOf(d) == IF Len(d) \in {20, 29} THEN SubSeq(d, Len(d) - 5, Len(d)) ELSE <<>>

\* Python's str(x) of a cell value
PyStr(c) ==
        \* the fraction of the second in str() of a datetime: none for whole
        \* seconds, microseconds when there are no odd nanoseconds, else nanoseconds
    LET FractionStr(d) ==
            IF FractionOf(d) = <<"0", "0", "0", "0", "0", "0", "0", "0", "0">> THEN <<>>
            ELSE IF SubSeq(FractionOf(d), 7, 9) = <<"0", "0", "0">> THEN <<".">> \o SubSeq(FractionOf(d), 1, 6)
            ELSE <<".">> \o FractionOf(d)
    IN
    CASE c.k = "str"      -> c.v
      [] c.k = "int"      -> c.v
      [] c.k = "float"    -> IF c.v # <<>> /\ c.v[1] = "-"
                             THEN <<"-">> \o FloatRepr(Tail(c.v)) ELSE FloatRepr(c.v)
      [] c.k = "bool"     -> IF c.v = <<"1">> THEN <<"T", "r", "u", "e">> ELSE <<"F", "a", "l", "s", "e">>
      [] c.k = "time"     -> TimeStr(c.v)
      [] c.k = "datetime" -> DateStr(c.v) \o <<" ">> \o TimeStr(SubSeq(c.v, 9, 14)) \o FractionStr(c.v)
                                 \o ZoneOf(c.v)
      [] c.k = "nan"      -> <<"n", "a", "n">>
      [] c.k = "nat"      -> <<"N", "a", "T">>
      [] c.k = "none"     -> <<"N", "o", "n", "e">>

\* Series.astype(str) on one cell of a column of dtype object or float
AsTypeStr(c) == StrCell(PyStr(c))

(***************************************************************************)
(* clean_id, lines 13-17                                                   *)
(***************************************************************************)
\* clean_id without the final removal of the non-alphanumeric characters
clean_id_keep_punct(x) ==
    LET s1 == Upper(Strip(PyStr(x)))
    IN  IF EndsWith(s1, <<".", "0">>) THEN SubSeq(s1, 1, Len(s1) - 2) ELSE s1

clean_id(x) ==
    LET s1 == Upper(Strip(PyStr(x)))
        s2 == IF EndsWith(s1, <<".", "0">>) THEN SubSeq(s1, 1, Len(s1) - 2) ELSE s1
    IN  SelectSeq(s2, IsUpperAlnum)

(***************************************************************************)
(* to_time, lines 19-30                                                    *)
(***************************************************************************)
\* the None returned for a missing or unparseable cell
NoneTime == -1

FirstPos(c, s) == CHOOSE i \in 1..Len(s) : s[i] = c /\ \A j \in 1..(i - 1) : s[j] # c

RECURSIVE SplitColon(_)
\* the fields of s between its colons
SplitColon(s) ==
    IF ~InSeq(":", s) THEN <<s>>
    ELSE <<SubSeq(s, 1, FirstPos(":", s) - 1)>>
             \o SplitColon(SubSeq(s, FirstPos(":", s) + 1, Len(s)))

\* A strptime numeric field (%H, %M, %S): one or two digits, at most max;
\* -1 when the field does not parse.  %S also matches 60 and 61, which the
\* datetime constructor then rejects, so max is 59 for it as well.
TimeField(p, max) ==
    LET n == IF Len(p) = 1 THEN DigitVal(p[1])
             ELSE IF Len(p) = 2 THEN 10 * DigitVal(p[1]) + DigitVal(p[2])
             ELSE -1
    IN  IF n >= 0 /\ n <= max THEN n ELSE -1

\* datetime.strptime(s, "%H:%M:%S") and datetime.strptime(s, "%H:%M"), as
\* seconds since midnight; NoneTime when strptime raises
StrpTime(s, nfields) ==
    LET f == SplitColon(s)
        h == TimeField(f[1], 23)
        m == TimeField(f[2], 59)
        sec == IF nfields = 3 THEN TimeField(f[3], 59) ELSE 0
    IN  IF Len(f) # nfields THEN NoneTime
        ELSE IF h < 0 \/ m < 0 \/ sec < 0 THEN NoneTime
        ELSE 3600 * h + 60 * m + sec

to_time(v) ==
        \* the class [0-9:] of line 23
    LET IsDigitOrColon(c) == InSeq(c, DigitChars) \/ c = ":"
    IN
    IF IsNa(v) THEN NoneTime
    ELSE LET s == Strip(SelectSeq(PyStr(v), IsDigitOrColon))
             t1 == StrpTime(s, 3)
         IN  IF t1 # NoneTime THEN t1 ELSE StrpTime(s, 2)

(***************************************************************************)
(* Tables: [cols |-> sequence of headers, rows |-> sequence of rows], a    *)
(* row being a sequence of cells as long as cols                           *)
(***************************************************************************)
\* the subsequence of s at the positions that satisfy keep, in order
RECURSIVE AtPositions(_, _, _)
AtPositions(s, keep, i) ==
    IF i > Len(s) THEN <<>>
    ELSE (IF i \in keep THEN <<s[i]>> ELSE <<>>) \o AtPositions(s, keep, i + 1)

\* dedupe_columns_inplace, lines 41-44: keep the first occurrence of each header
dedupe_columns_inplace(df) ==
    LET mask == {i \in 1..Len(df.cols) : \A j \in 1..(i - 1) : df.cols[j] # df.cols[i]}
    IN  [cols |-> AtPositions(df.cols, mask, 1),
         rows |-> [r \in 1..Len(df.rows) |-> AtPositions(df.rows[r], mask, 1)]]

\* df.columns = df.columns.str.strip(), lines 62, 73, 74
StripColumns(df) ==
    [cols |-> [i \in 1..Len(df.cols) |-> Strip(df.cols[i])], rows |-> df.rows]

\* the positions of the columns labelled c
ColPositions(df, c) == {i \in 1..Len(df.cols) : df.cols[i] = c}

HasCol(df, c) == ColPositions(df, c) # {}

\* the position of the first column labelled c
ColPos(df, c) == CHOOSE i \in ColPositions(df, c) : \A j \in ColPositions(df, c) : i <= j

\* next((c for c in df.columns if token in c.lower()), default), lines 77, 109
FirstColWith(df, token, default) ==
    LET hits == {i \in 1..Len(df.cols) : Contains(Lower(df.cols[i]), token)}
    IN  IF hits = {} THEN default
        ELSE df.cols[CHOOSE i \in hits : \A j \in hits : i <= j]

(***************************************************************************)
(* find_emp_col, lines 32-39                                               *)
(***************************************************************************)
possible ==
    << <<"p", "a", "y", " ", "c", "o", "d", "e">>,
       <<"e", "m", "p", " ", "c", "o", "d", "e">>,
       <<"e", "m", "p", "l", "o", "y", "e", "e", " ", "c", "o", "d", "e">>,
       <<"e", "m", "p", "i", "d">>,
       <<"e", "m", "p", " ", "i", "d">>,
       <<"c", "o", "d", "e">> >>

\* the positions of the headers that contain possible[n]
EmpColHits(df, n) ==
    {i \in 1..Len(df.cols) : Contains(Lower(Strip(df.cols[i])), possible[n])}

find_emp_col(df) ==
    LET names == {n \in 1..Len(possible) : EmpColHits(df, n) # {}}
        name == CHOOSE n \in names : \A k \in names : n <= k
        hits == EmpColHits(df, name)
    IN  IF names = {} THEN df.cols[1]
        ELSE df.cols[CHOOSE i \in hits : \A j \in hits : i <= j]

(***************************************************************************)
(* compare_files: loading, lines 59-85                                     *)
(***************************************************************************)
\* the cells of the column at position j
ColumnAt(df, j) == {df.rows[r][j] : r \in 1..Len(df.rows)}

\* the column at position j has dtype datetime64: all its cells are
\* Timestamps without time zone or NaT
IsDatetimeColumn(df, j) ==
    \A c \in ColumnAt(df, j) : c.k = "nat" \/ (c.k = "datetime" /\ ZoneOf(c.v) = <<>>)

\* the digits of the fraction that a datetime64 column prints: those of
\* the finest of its cells, in steps of three
FractionDigits(df, j) ==
    LET fr == {FractionOf(d.v) : d \in {c \in ColumnAt(df, j) : c.k = "datetime"}}
    IN  IF \E f \in fr : SubSeq(f, 7, 9) # <<"0", "0", "0">> THEN 9
        ELSE IF \E f \in fr : SubSeq(f, 4, 6) # <<"0", "0", "0">> THEN 6
        ELSE IF \E f \in fr : f # <<"0", "0", "0", "0", "0", "0", "0", "0", "0">> THEN 3
        ELSE 0

\* Series.astype(str) on the cell c of the column at position j.  A
\* datetime64 column prints its dates without the time of day when every
\* one of them is at midnight, and else all with the same fraction.  A
\* column with time zones prints each cell as str() does.
AsTypeStrIn(df, j, c) ==
    IF c.k = "datetime" /\ IsDatetimeColumn(df, j)
    THEN IF \A d \in ColumnAt(df, j) :
                d.k = "datetime" => SubSeq(d.v, 9, 14) = <<"0", "0", "0", "0", "0", "0">> /\ FractionOf(d.v) = <<"0", "0", "0", "0", "0", "0", "0", "0", "0">>
         THEN StrCell(DateStr(c.v))
         ELSE StrCell(DateStr(c.v) \o <<" ">> \o TimeStr(SubSeq(c.v, 9, 14))
                        \o (IF FractionDigits(df, j) = 0 THEN <<>>
                            ELSE <<".">> \o SubSeq(FractionOf(c.v), 1, FractionDigits(df, j))))
    ELSE AsTypeStr(c)

\* df[col] = df[col].astype(str).map(clean_id), lines 80-82, on every
\* column labelled col
NormaliseIds(df, col) ==
    [cols |-> df.cols,
     rows |-> [r \in 1..Len(df.rows) |->
                 [i \in 1..Len(df.cols) |->
                    IF df.cols[i] = col
                    THEN StrCell(clean_id(AsTypeStrIn(df, i, df.rows[r][i])))
                    ELSE df.rows[r][i]]]]

\* the regular expression ^\s*$|^-$ of lines 84-85, searched in s: "$"
\* matches at the end of s and before a line feed that ends s
IsBlankOrDash(s) ==
    (\A i \in 1..Len(s) : IsSpace(s[i])) \/ s = <<"-">> \/ s = <<"-", "\n">>

\* df.replace(r"^\s*$|^-$", np.nan, regex=True), lines 84-85: every text
\* cell of the table that is blank or a lone dash becomes missing
ReplaceBlanks(df) ==
    [cols |-> df.cols,
     rows |-> [r \in 1..Len(df.rows) |->
                 [i \in 1..Len(df.cols) |->
                    IF df.rows[r][i].k = "str" /\ IsBlankOrDash(df.rows[r][i].v)
                    THEN NaN ELSE df.rows[r][i]]]]

\* lines 69-74 for one biometric table
LoadColumns(raw) == StripColumns(dedupe_columns_inplace(raw))

\* lines 69-85 for one biometric table
LoadBio(raw) ==
    ReplaceBlanks(NormaliseIds(LoadColumns(raw), find_emp_col(LoadColumns(raw))))

\* the label col occurs more than once among the headers of df
IsDuplicated(df, col) == Cardinality(ColPositions(df, col)) > 1

\* set(df[col]), line 110: the cells of the column, and the label itself
\* when it occurs more than once (df[col] is then a frame, which iterates
\* over its column labels)
IdSet(df, col) ==
    IF IsDuplicated(df, col) THEN {StrCell(col)} ELSE ColumnAt(df, ColPos(df, col))

(***************************************************************************)
(* pd.to_datetime(column, errors="coerce"), lines 64-66.  A Timestamp is   *)
(* handled by its fields <<year, month, day, hour, minute, second,         *)
(* nanosecond>> and its offset from UTC, the empty string when it has no   *)
(* time zone.                                                              *)
(***************************************************************************)
\* the outcome of a conversion that raises
Raised == [k |-> "raise", v |-> <<>>]

\* the last w digits of the natural number n
RECURSIVE Pad(_, _)
Pad(n, w) == IF w = 0 THEN <<>> ELSE Pad(n \div 10, w - 1) \o <<DigitChars[(n % 10) + 1]>>

\* the value of a numeral of at most nine digits
RECURSIVE NumVal(_)
NumVal(s) == IF s = <<>> THEN 0 ELSE 10 * NumVal(SubSeq(s, 1, Len(s) - 1)) + DigitVal(s[Len(s)])

IsNumeral(s) == s # <<>> /\ \A i \in 1..Len(s) : IsDigit(s[i])

ValidDate(y, m, d) ==
    LET DaysIn(y_d, m_d) ==
            LET IsLeap(y_i) == y_i % 4 = 0 /\ (y_i % 100 # 0 \/ y_i % 400 = 0)
            IN
            IF m_d = 2 THEN (IF IsLeap(y_d) THEN 29 ELSE 28)
            ELSE IF m_d \in {4, 6, 9, 11} THEN 30 ELSE 31
    IN
                      y \in 1..9999 /\ m \in 1..12 /\ d \in 1..DaysIn(y, m)

ValidTime(h, m, s) == h \in 0..23 /\ m \in 0..59 /\ s \in 0..59

\* the Timestamp with the fields f and the offset zone
TsCellTz(f, zone) ==
    DatetimeCell(Pad(f[1], 4) \o Pad(f[2], 2) \o Pad(f[3], 2) \o Pad(f[4], 2)
                     \o Pad(f[5], 2) \o Pad(f[6], 2)
                     \o (IF f[7] = 0 THEN <<>> ELSE Pad(f[7], 9)) \o zone)

\* the fields of the datetime with digits d
FieldsOf(d) ==
    <<NumVal(SubSeq(d, 1, 4)), NumVal(SubSeq(d, 5, 6)), NumVal(SubSeq(d, 7, 8)),
      NumVal(SubSeq(d, 9, 10)), NumVal(SubSeq(d, 11, 12)), NumVal(SubSeq(d, 13, 14)),
      NumVal(FractionOf(d))>>

\* a is before or equal to b, field by field
RECURSIVE LexLeq(_, _)
LexLeq(a, b) ==
    a = <<>> \/ a[1] < b[1] \/ (a[1] = b[1] /\ LexLeq(Tail(a), Tail(b)))

\* What to_datetime gives for a date read as the fields f with the offset
\* zone: that Timestamp when datetime64[ns] holds it; outside its range NaT
\* where the result is in nanoseconds (before pandas 3) and the Timestamp
\* where the unit follows the input (pandas 3).
RangedTz(f, zone) ==
    LET TsMax == <<2262, 4, 11, 23, 47, 16, 854775807>>
    IN
        \* Timestamp.min and Timestamp.max of datetime64[ns]
    LET TsMin == <<1677, 9, 21, 0, 12, 43, 145224193>>
    IN
    IF LexLeq(TsMin, f) /\ LexLeq(f, TsMax) THEN {TsCellTz(f, zone)}
    ELSE {NaT, TsCellTz(f, zone)}

Ranged(f) == RangedTz(f, <<>>)

(* numbers: nanoseconds since 1970-01-01 *)

\* a numeral without its leading zeros
RECURSIVE StripZeros(_)
StripZeros(s) == IF Len(s) > 1 /\ s[1] = "0" THEN StripZeros(Tail(s)) ELSE s

\* the numeral of n + 1
RECURSIVE Incr(_)
Incr(s) ==
    IF s = <<>> THEN <<"1">>
    ELSE IF s[Len(s)] = "9" THEN Incr(SubSeq(s, 1, Len(s) - 1)) \o <<"0">>
    ELSE SubSeq(s, 1, Len(s) - 1) \o <<DigitChars[DigitVal(s[Len(s)]) + 2]>>

\* the largest int64
MaxNs == <<"9", "2", "2", "3", "3", "7", "2", "0", "3", "6", "8", "5", "4", "7", "7", "5", "8", "0", "7">>

\* quotient and remainder of a numeral of seconds by the 86400 of a day
RECURSIVE DivDay(_)
DivDay(s) ==
    IF s = <<>> THEN <<0, 0>>
    ELSE LET p == DivDay(SubSeq(s, 1, Len(s) - 1))
             n == 10 * p[2] + DigitVal(s[Len(s)])
         IN  <<10 * p[1] + (n \div 86400), n % 86400>>

\* year, month and day of the day n days after 1970-01-01 (n may be
\* negative), in the proleptic Gregorian calendar
CivilFromDays(n) ==
    LET z == n + 719468
        era == z \div 146097
        doe == z % 146097
        yoe == (doe - (doe \div 1460) + (doe \div 36524) - (doe \div 146096)) \div 365
        doy == doe - (365 * yoe + (yoe \div 4) - (yoe \div 100))
        mp == (5 * doy + 2) \div 153
        d == doy - ((153 * mp + 2) \div 5) + 1
        m == IF mp < 10 THEN mp + 3 ELSE mp - 9
        y == yoe + 400 * era + (IF m <= 2 THEN 1 ELSE 0)
    IN  <<y, m, d>>

\* the number of days from 1970-01-01 to the day d of month m of year y
DaysFromCivil(y, m, d) ==
    LET yy == IF m <= 2 THEN y - 1 ELSE y
        era == yy \div 400
        yoe == yy - 400 * era
        doy == ((153 * (IF m > 2 THEN m - 3 ELSE m + 9) + 2) \div 5) + d - 1
        doe == 365 * yoe + (yoe \div 4) - (yoe \div 100) + doy
    IN  146097 * era + doe - 719468

\* the day of the week of a date, 0 for Monday
WeekdayOf(y, m, d) == (DaysFromCivil(y, m, d) + 3) % 7

\* to_datetime of the integer with sign neg and magnitude mag: NaT when
\* int64 does not hold it or it is the int64 that means NaT
EpochOutcomes(neg, mag) ==
        \* a <= b for numerals without leading zeros
    LET NumeralLeq(a, b) ==
            \/ Len(a) < Len(b)
            \/ Len(a) = Len(b) /\ LexLeq([i \in 1..Len(a) |-> DigitVal(a[i])],
                                         [i \in 1..Len(b) |-> DigitVal(b[i])])
    IN
        \* the Timestamp without time zone with the fields f
    LET TsCell(f) == TsCellTz(f, <<>>)
    IN
        \* the fields of the instant mag nanoseconds after the epoch, or before it
        \* when neg; mag is a numeral of at most MaxNs
    LET FromEpoch(neg_f, mag_f) ==
            LET m == StripZeros(mag_f)
                ns0 == NumVal(IF Len(m) > 9 THEN SubSeq(m, Len(m) - 8, Len(m)) ELSE m)
                qr == DivDay(IF Len(m) > 9 THEN SubSeq(m, 1, Len(m) - 9) ELSE <<>>)
                borrow == neg_f /\ ns0 > 0
                ns == IF borrow THEN 1000000000 - ns0 ELSE ns0
                r1 == qr[2] + (IF borrow THEN 1 ELSE 0)
                q == IF r1 = 86400 THEN qr[1] + 1 ELSE qr[1]
                r == IF r1 = 86400 THEN 0 ELSE r1
                days == IF ~neg_f THEN q ELSE IF r = 0 THEN 0 - q ELSE 0 - (q + 1)
                sod == IF ~neg_f \/ r = 0 THEN r ELSE 86400 - r
                ymd == CivilFromDays(days)
            IN  <<ymd[1], ymd[2], ymd[3], sod \div 3600, (sod % 3600) \div 60, sod % 60, ns>>
    IN
    IF NumeralLeq(StripZeros(mag), MaxNs) THEN {TsCell(FromEpoch(neg, mag))} ELSE {NaT}

\* to_datetime of a number cell.  A float with a fraction is cut or rounded
\* to whole nanoseconds, by pandas version.
NumberOutcomes(c) ==
    LET neg == c.v[1] = "-"
        a == IF neg THEN Tail(c.v) ELSE c.v
        whole == IF InSeq(".", a) THEN SubSeq(a, 1, PosIn(".", a) - 1) ELSE a
        frac == IF InSeq(".", a) THEN SubSeq(a, PosIn(".", a) + 1, Len(a)) ELSE <<>>
    IN  EpochOutcomes(neg, whole)
            \cup (IF \E i \in 1..Len(frac) : frac[i] # "0"
                  THEN EpochOutcomes(neg, Incr(whole)) ELSE {})

(* the clock *)

(* text in the spellings followed exactly *)

MonthAbbr ==
    <<<<"j", "a", "n">>, <<"f", "e", "b">>, <<"m", "a", "r">>, <<"a", "p", "r">>, <<"m", "a", "y">>, <<"j", "u", "n">>, <<"j", "u", "l">>, <<"a", "u", "g">>, <<"s", "e", "p">>, <<"o", "c", "t">>, <<"n", "o", "v">>, <<"d", "e", "c">>>>

MonthFull ==
    <<<<"j", "a", "n", "u", "a", "r", "y">>, <<"f", "e", "b", "r", "u", "a", "r", "y">>, <<"m", "a", "r", "c", "h">>, <<"a", "p", "r", "i", "l">>, <<"m", "a", "y">>, <<"j", "u", "n", "e">>, <<"j", "u", "l", "y">>, <<"a", "u", "g", "u", "s", "t">>,
      <<"s", "e", "p", "t", "e", "m", "b", "e", "r">>, <<"o", "c", "t", "o", "b", "e", "r">>, <<"n", "o", "v", "e", "m", "b", "e", "r">>, <<"d", "e", "c", "e", "m", "b", "e", "r">>>>

\* the names of the days of the week, Monday first, by their first three
\* letters
WeekdayAbbr == <<<<"m", "o", "n">>, <<"t", "u", "e">>, <<"w", "e", "d">>, <<"t", "h", "u">>, <<"f", "r", "i">>, <<"s", "a", "t">>, <<"s", "u", "n">>>>

\* text the date parser cannot read as a date: no digit and no date word.
\* The texts that stand for a missing date ("", "nan", "NaT", ...) are
\* among these.
IsNoDate(s) ==
        \* words of which the date parser makes a date or a time zone
    LET DateWords ==
            {MonthAbbr[i] : i \in 1..12} \cup {WeekdayAbbr[i] : i \in 1..7} \cup {<<"u", "t", "c">>, <<"g", "m", "t">>}
    IN
    /\ \A i \in 1..Len(s) : ~IsDigit(s[i])
    /\ \A w \in DateWords : ~Contains(Lower(s), w)

\* the fields of s read as YYYY-MM-DD, <<>> when s is not such a date
IsoDate(s) ==
    IF /\ Len(s) = 10
       /\ s[5] = "-" /\ s[8] = "-"
       /\ \A i \in {1, 2, 3, 4, 6, 7, 9, 10} : IsDigit(s[i])
       /\ ValidDate(NumVal(SubSeq(s, 1, 4)), NumVal(SubSeq(s, 6, 7)), NumVal(SubSeq(s, 9, 10)))
    THEN <<NumVal(SubSeq(s, 1, 4)), NumVal(SubSeq(s, 6, 7)), NumVal(SubSeq(s, 9, 10)), 0, 0, 0, 0>>
    ELSE <<>>

\* the number of digits s starts with
RECURSIVE LeadingDigits(_)
LeadingDigits(s) == IF s # <<>> /\ IsDigit(s[1]) THEN 1 + LeadingDigits(Tail(s)) ELSE 0

\* s cut or filled with zeros on the right to w characters
PadRight(s, w) == [i \in 1..w |-> IF i <= Len(s) THEN s[i] ELSE "0"]

\* The offset from UTC written as z, in the form str() prints ("+05:30"):
\* "Z" is UTC, and an offset is a sign with HH:MM, HHMM or HH.  The empty
\* string stands for no time zone, and "?" for a z that is no offset.
ZoneText(z) ==
    LET digits(P) == \A i \in P : IsDigit(z[i])
        ok(h, m) == NumVal(h) <= 23 /\ NumVal(m) <= 59
    IN  IF z = <<>> THEN <<>>
        ELSE IF z = <<"Z">> THEN <<"+", "0", "0", ":", "0", "0">>
        ELSE IF z[1] \notin {"+", "-"} THEN <<"?">>
        ELSE IF Len(z) = 6 /\ z[4] = ":" /\ digits({2, 3, 5, 6})
                   /\ ok(SubSeq(z, 2, 3), SubSeq(z, 5, 6)) THEN z
        ELSE IF Len(z) = 5 /\ digits({2, 3, 4, 5}) /\ ok(SubSeq(z, 2, 3), SubSeq(z, 4, 5))
             THEN <<z[1], z[2], z[3], ":", z[4], z[5]>>
        ELSE IF Len(z) = 3 /\ digits({2, 3}) /\ NumVal(SubSeq(z, 2, 3)) <= 23 THEN z \o <<":", "0", "0">>
        ELSE <<"?">>

\* the digits of the fraction of the second that s has from position 20 on
IsoFraction(s) ==
    IF Len(s) >= 21 /\ s[20] = "." THEN SubSeq(s, 21, 20 + LeadingDigits(SubSeq(s, 21, Len(s))))
    ELSE <<>>

\* what follows the seconds and their fraction in s
IsoTail(s) ==
    IF Len(s) >= 20 /\ s[20] = "." THEN SubSeq(s, 21 + Len(IsoFraction(s)), Len(s))
    ELSE SubSeq(s, 20, Len(s))

\* the fields of s read as YYYY-MM-DD HH:MM:SS or YYYY-MM-DDTHH:MM:SS, with
\* or without a fraction of the second of up to nine digits and an offset
\* from UTC; <<>> when s is not such a date
IsoDateTime(s) ==
    IF /\ Len(s) >= 19
       /\ IsoDate(SubSeq(s, 1, 10)) # <<>>
       /\ s[11] \in {" ", "T"}
       /\ s[14] = ":" /\ s[17] = ":"
       /\ \A i \in {12, 13, 15, 16, 18, 19} : IsDigit(s[i])
       /\ ValidTime(NumVal(SubSeq(s, 12, 13)), NumVal(SubSeq(s, 15, 16)), NumVal(SubSeq(s, 18, 19)))
       /\ (Len(s) >= 20 /\ s[20] = ".") => Len(IsoFraction(s)) \in 1..9
       /\ ZoneText(IsoTail(s)) # <<"?">>
    THEN SubSeq(IsoDate(SubSeq(s, 1, 10)), 1, 3)
             \o <<NumVal(SubSeq(s, 12, 13)), NumVal(SubSeq(s, 15, 16)), NumVal(SubSeq(s, 18, 19)),
                  NumVal(PadRight(IsoFraction(s), 9))>>
    ELSE <<>>

\* the number of the month named w, in full or by its first three letters,
\* in any case; 0 when w names no month
MonthNamed(w) ==
    IF \E n \in 1..12 : Lower(w) \in {MonthAbbr[n], MonthFull[n]}
    THEN CHOOSE n \in 1..12 : Lower(w) \in {MonthAbbr[n], MonthFull[n]}
    ELSE 0

\* the fields of s read as day, month name and year ("5 Jan 2023",
\* "05 January 2023"), <<>> when s is not such a date
DayMonthYear(s) ==
    LET sp == {i \in 1..Len(s) : s[i] = " "}
        i1 == CHOOSE i \in sp : \A j \in sp : i <= j
        i2 == CHOOSE i \in sp : \A j \in sp : j <= i
        day == SubSeq(s, 1, i1 - 1)
        mon == SubSeq(s, i1 + 1, i2 - 1)
        year == SubSeq(s, i2 + 1, Len(s))
    IN  IF /\ Cardinality(sp) = 2
           /\ IsNumeral(day) /\ Len(day) <= 2
           /\ IsNumeral(year) /\ Len(year) = 4
           /\ MonthNamed(mon) # 0
           /\ ValidDate(NumVal(year), MonthNamed(mon), NumVal(day))
        THEN <<NumVal(year), MonthNamed(mon), NumVal(day), 0, 0, 0, 0>>
        ELSE <<>>

\* the fields the text s gives in one of the three spellings above
KnownDate(s) ==
    IF IsoDate(s) # <<>> THEN IsoDate(s)
    ELSE IF IsoDateTime(s) # <<>> THEN IsoDateTime(s)
    ELSE DayMonthYear(s)

\* the format of a text in one of these spellings, "" for any other text.
\* "May" is both the full name and its abbreviation.
FormatOf(s) ==
    IF IsoDate(s) # <<>> THEN <<"%Y-%m-%d">>
    ELSE IF IsoDateTime(s) # <<>>
         THEN <<"%Y-%m-%d", s[11], "%H:%M:%S",
                IF IsoFraction(s) # <<>> THEN ".%f" ELSE "",
                IF IsoTail(s) # <<>> THEN "%z" ELSE "">>
    ELSE IF DayMonthYear(s) = <<>> THEN <<>>
    ELSE IF DayMonthYear(s)[2] = 5 THEN <<"%d May %Y">>
    ELSE IF \E n \in 1..12 : Contains(Lower(s), MonthFull[n]) THEN <<"%d %B %Y">>
    ELSE <<"%d %b %Y">>

(* text in another spelling: the dates and times its numbers and words allow *)

\* the maximal runs of digits in s, each as <<first, last>>
DigitRuns(s) ==
    {r \in (1..Len(s)) \X (1..Len(s)) :
        /\ r[1] <= r[2]
        /\ \A k \in r[1]..r[2] : IsDigit(s[k])
        /\ r[1] = 1 \/ ~IsDigit(s[r[1] - 1])
        /\ r[2] = Len(s) \/ ~IsDigit(s[r[2] + 1])}

\* the runs next to a colon: hours, minutes and seconds
ClockRuns(s) ==
    {r \in DigitRuns(s) : \/ r[1] > 1 /\ s[r[1] - 1] = ":"
                          \/ r[2] < Len(s) /\ s[r[2] + 1] = ":"}

\* the runs after a point or comma that follows a minute or a second: the
\* fraction
FractionRuns(s) ==
    {r \in DigitRuns(s) \ ClockRuns(s) :
        /\ r[1] > 2
        /\ s[r[1] - 1] \in {".", ","}
        /\ \E c \in ClockRuns(s) : c[2] = r[1] - 2 /\ c[1] > 1 /\ s[c[1] - 1] = ":"}

\* the runs of s in ascending order
RECURSIVE SortRuns(_)
SortRuns(rs) ==
    IF rs = {} THEN <<>>
    ELSE LET r == CHOOSE x \in rs : \A y \in rs : x[1] <= y[1]
         IN  <<r>> \o SortRuns(rs \ {r})

\* the hours a numeral h can stand for: itself, the hour of the afternoon
\* with "pm", midnight for 12 with "am"
HoursOf(s, h) ==
    {h} \cup (IF Contains(Lower(s), <<"p", "m">>) /\ h < 12 THEN {h + 12} ELSE {})
        \cup (IF Contains(Lower(s), <<"a", "m">>) /\ h = 12 THEN {0} ELSE {})

\* The times of day written with colons in s, each with the nanoseconds of
\* its fraction.  A fraction after the seconds is read to the nanosecond or
\* cut to microseconds; a fraction after the minutes is a fraction of the
\* minute.
ClockTimes(s) ==
    LET cr == SortRuns(ClockRuns(s))
        val(i) == IF i <= Len(cr) /\ cr[i][2] - cr[i][1] < 2
                  THEN NumVal(SubSeq(s, cr[i][1], cr[i][2]))
                  ELSE IF i <= Len(cr) THEN 99 ELSE 0
        fr == FractionRuns(s)
        f == CHOOSE r \in fr : \A q \in fr : r[1] <= q[1]
        digits == SubSeq(s, f[1], f[2])
        ofsecond == Len(cr) >= 3 /\ f[1] = cr[3][2] + 2
        secs == IF fr = {} \/ ofsecond THEN {val(3)}
                ELSE {val(3), (60 * NumVal(PadRight(digits, 2))) \div 100}
        nanos == IF fr = {} THEN {0}
                 ELSE IF ofsecond
                      THEN {NumVal(PadRight(digits, 9)), 1000 * NumVal(PadRight(digits, 6))}
                      ELSE {0, NumVal(PadRight(digits, 9)), 1000 * NumVal(PadRight(digits, 6))}
    IN  IF cr = <<>> THEN {<<0, 0, 0, 0>>}
        ELSE {<<h, val(2), x, n>> : h \in {y \in HoursOf(s, val(1)) : y <= 23},
                                    x \in {y \in secs : ValidTime(0, val(2), y)}, n \in nanos}

\* The numerals of s that can be part of its date, each with the position
\* it starts at: the runs of up to four digits that belong to no time
\* written with colons
DateTokens(s) ==
    {<<r[1], SubSeq(s, r[1], r[2])>> :
        r \in {x \in DigitRuns(s) \ (ClockRuns(s) \cup FractionRuns(s)) : x[2] - x[1] < 4}}

\* the times of day that the numerals of s can mean when written without
\* colons, each with the numerals it uses
LooseTimes(s) ==
    LET toks == DateTokens(s)
        short == {t \in toks : Len(t[2]) <= 2}
        none == <<0, <<>>>>
        num(t) == IF t = none THEN 0 ELSE NumVal(t[2])
    IN  {<<<<q[4], num(q[2]), num(q[3]), 0>>, {q[1], q[2], q[3]} \ {none}>> :
            q \in {x \in short \X (short \cup {none}) \X (short \cup {none}) \X (0..23) :
                      /\ x[4] \in HoursOf(s, num(x[1]))
                      /\ ValidTime(x[4], num(x[2]), num(x[3]))
                      /\ x[2] = none \/ x[2][1] > x[1][1]
                      /\ x[3] = none \/ (x[2] # none /\ x[3][1] > x[2][1])}}
        \cup {<<<<NumVal(SubSeq(t[2], 1, 2)), NumVal(SubSeq(t[2], 3, 4)), 0, 0>>, {t}>> :
                 t \in {u \in toks : Len(u[2]) = 4
                                       /\ ValidTime(NumVal(SubSeq(u[2], 1, 2)), NumVal(SubSeq(u[2], 3, 4)), 0)}}

\* The dates and times written without separators in s: a run of eight
\* digits is YYYYMMDD, a run of six YYMMDD or YYYYMM, a run of twelve
\* YYYYMMDDHHMM and a run of fourteen YYYYMMDDHHMMSS; a run of six or of
\* four digits after a run of eight is HHMMSS or HHMM.  Each as <<year,
\* month, day, hour, minute, second>>.
CompactDates(s) ==
    LET rs == DigitRuns(s) \ (ClockRuns(s) \cup FractionRuns(s))
        num(r, a, b) == NumVal(SubSeq(s, r[1] + a - 1, r[1] + b - 1))
        len(r) == r[2] - r[1] + 1
        ymd(r) == <<num(r, 1, 4), num(r, 5, 6), num(r, 7, 8)>>
        eights == {r \in rs : len(r) = 8}
    IN  {ymd(r) \o <<0, 0, 0>> : r \in eights}
            \cup {ymd(q[1]) \o <<num(q[2], 1, 2), num(q[2], 3, 4),
                                  IF len(q[2]) = 6 THEN num(q[2], 5, 6) ELSE 0>> :
                      q \in {x \in eights \X rs : len(x[2]) \in {4, 6} /\ x[2][1] > x[1][2]}}
            \cup {<<c + num(r, 1, 2), num(r, 3, 4), num(r, 5, 6), 0, 0, 0>> :
                      r \in {x \in rs : len(x) = 6 /\ eights = {}}, c \in {1900, 2000}}
            \cup {<<num(r, 1, 4), num(r, 5, 6), 1, 0, 0, 0>> : r \in {x \in rs : len(x) = 6 /\ eights = {}}}
            \cup {ymd(r) \o <<num(r, 9, 10), num(r, 11, 12), IF len(r) = 14 THEN num(r, 13, 14) ELSE 0>> :
                      r \in {x \in rs : len(x) \in {12, 14}}}

\* the days of the week named in s, 0 for Monday
NamedWeekdays(s) == {w \in 0..6 : Contains(Lower(s), WeekdayAbbr[w + 1])}

\* year, month and day of a date the text leaves out: those of the local
\* day of the run for a text that looks like a time, else 0001-01-01
DefaultDate(s, now) ==
        \* The parser takes the text for a time of day when it starts with H:MM or
        \* HH:MM: the date is then the day of the run.
    LET LooksLikeTime(s_l) ==
            \/ /\ Len(s_l) >= 4 /\ s_l[2] = ":"
               /\ IsDigit(s_l[1]) /\ IsDigit(s_l[3]) /\ IsDigit(s_l[4])
               /\ NumVal(SubSeq(s_l, 3, 4)) <= 59
            \/ /\ Len(s_l) >= 5 /\ s_l[3] = ":"
               /\ IsDigit(s_l[1]) /\ IsDigit(s_l[2]) /\ IsDigit(s_l[4]) /\ IsDigit(s_l[5])
               /\ NumVal(SubSeq(s_l, 1, 2)) <= 23 /\ NumVal(SubSeq(s_l, 4, 5)) <= 59
    IN
                       IF LooksLikeTime(s) THEN SubSeq(now.local, 1, 3) ELSE <<1, 1, 1>>

\* The dates s can mean that leave the numerals in skip unused.  Year,
\* month and day are each one of the other numerals, no numeral used twice,
\* the month a named month when s names one; what s leaves out is taken from
\* the default date.  As many numerals are used as there are and as the
\* date has room for, or fewer when any is allowed.
DatesFrom(s, now, skip, any) ==
        \* the months named in s
    LET NamedMonths(s_n) == {n \in 1..12 : Contains(Lower(s_n), MonthAbbr[n])}
    IN
        \* the date ymd, or when s names days of the week and no day of the month
        \* the first such day from ymd on
    LET OnWeekday(s_o, ymd, hasday) ==
            IF hasday \/ NamedWeekdays(s_o) = {} THEN {ymd}
            ELSE {CivilFromDays(DaysFromCivil(ymd[1], ymd[2], ymd[3])
                                    + ((w + 7 - WeekdayOf(ymd[1], ymd[2], ymd[3])) % 7)) :
                     w \in NamedWeekdays(s_o)}
    IN
    LET DaysOf(n) == {NumVal(n)} \cap (1..31)
    IN
        \* the months a numeral can stand for: itself, and with a "q" in the text
        \* the first month of the quarter of that number
    LET MonthsOf(s_m, n) ==
            ({NumVal(n)} \cap (1..12))
                \cup (IF Contains(Lower(s_m), <<"q">>) /\ NumVal(n) \in 1..4 THEN {3 * NumVal(n) - 2} ELSE {})
    IN
        \* The years a numeral can stand for.  A year of one or two digits is in
        \* 1900 or in 2000, or in the century that brings it within fifty years of
        \* the year of the clock.
    LET YearsOf(n, now_y) ==
            IF Len(n) >= 3 THEN {NumVal(n)} \ {0}
            ELSE LET y == NumVal(n) + 100 * (now_y.local[1] \div 100)
                 IN  {1900 + NumVal(n), 2000 + NumVal(n),
                      IF y >= now_y.local[1] + 50 THEN y - 100
                      ELSE IF y < now_y.local[1] - 50 THEN y + 100 ELSE y}
    IN
    LET toks == DateTokens(s) \ skip
        none == <<0, <<>>>>
        named == NamedMonths(s)
        room == IF named = {} THEN 3 ELSE 2
        most == IF Cardinality(toks) < room THEN Cardinality(toks) ELSE room
        pick == (toks \cup {none}) \X (toks \cup {none}) \X (toks \cup {none})
        used(p) == {i \in 1..3 : p[i] # none}
        ok(p) == /\ \A i, j \in used(p) : i # j => p[i] # p[j]
                 /\ named # {} => p[2] = none
                 /\ Cardinality(used(p)) <= most
                 /\ ~any => Cardinality(used(p)) = most
        ys(p) == IF p[1] = none THEN {DefaultDate(s, now)[1]} ELSE YearsOf(p[1][2], now)
        ms(p) == IF named # {} THEN named
                 ELSE IF p[2] = none THEN {DefaultDate(s, now)[2]} ELSE MonthsOf(s, p[2][2])
        ds(p) == IF p[3] = none THEN {DefaultDate(s, now)[3]} ELSE DaysOf(p[3][2])
    IN  {d \in UNION {UNION {OnWeekday(s, ymd, p[3] # none) :
                                 ymd \in {x \in ys(p) \X ms(p) \X ds(p) : ValidDate(x[1], x[2], x[3])}} :
                          p \in {x \in pick : ok(x)}} :
            ValidDate(d[1], d[2], d[3])}

\* The fields s can mean: a date and a time written without separators, or
\* a date from its numerals and month names with a time written with
\* colons or, where that can be, without.
DateCandidates(s, now) ==
        \* A time of day can be written without colons in s: as an hour with "am",
        \* "pm" or "h", or as HH or HHMM after a date of three parts.
    LET LooseTime(s_l) ==
            /\ ClockRuns(s_l) = {}
            /\ \/ Contains(Lower(s_l), <<"a", "m">>) \/ Contains(Lower(s_l), <<"p", "m">>)
               \/ \E i \in 1..Len(s_l) - 1 : IsDigit(s_l[i]) /\ s_l[i + 1] \in {"h", "H"}
               \/ \E i \in 1..Len(s_l) - 2 : IsDigit(s_l[i]) /\ s_l[i + 1] = " " /\ s_l[i + 2] \in {"h", "H"}
               \/ Cardinality(DateTokens(s_l)) > (IF \E n \in 1..12 : Contains(Lower(s_l), MonthAbbr[n]) THEN 2 ELSE 3)
    IN
    LET full(ymd, t) == <<ymd[1], ymd[2], ymd[3], t[1], t[2], t[3], t[4]>>
        compact == {c \in CompactDates(s) : ValidDate(c[1], c[2], c[3]) /\ ValidTime(c[4], c[5], c[6])}
    IN  IF compact # {}
        THEN {<<c[1], c[2], c[3], c[4], c[5], c[6], 0>> : c \in compact}
                 \cup {full(c, t) : c \in {x \in compact : x[4] = 0 /\ x[5] = 0 /\ x[6] = 0},
                                    t \in ClockTimes(s)}
        ELSE {full(ymd, t) : ymd \in DatesFrom(s, now, {}, FALSE), t \in ClockTimes(s)}
                 \cup (IF LooseTime(s)
                       THEN UNION {{full(ymd, lt[1]) : ymd \in DatesFrom(s, now, lt[2], TRUE)} :
                                      lt \in LooseTimes(s)}
                       ELSE {})

\* The readings of s as <<text, offset>>: the whole of s without time zone;
\* and, when s has a time of day followed by "Z", "UTC", "GMT" or an offset
\* from UTC, what comes before it with that offset.
ZoneReadings(s) ==
    LET low == Lower(s)
        cut(n) == Strip(SubSeq(s, 1, Len(s) - n))
        timed(n) == InSeq(":", SubSeq(s, 1, Len(s) - n))
    IN  {<<s, <<>>>>}
            \cup (IF Len(s) > 1 /\ s[Len(s)] \in {"z", "Z"}
                      /\ (IsDigit(s[Len(s) - 1]) \/ s[Len(s) - 1] = " ")
                  THEN {<<cut(1), <<"+", "0", "0", ":", "0", "0">>>>} ELSE {})
            \cup (IF EndsWith(low, <<"u", "t", "c">>) \/ EndsWith(low, <<"g", "m", "t">>)
                  THEN {<<cut(3), <<"+", "0", "0", ":", "0", "0">>>>} ELSE {})
            \cup {<<cut(n), ZoneText(SubSeq(s, Len(s) - n + 1, Len(s)))>> :
                     n \in {k \in {3, 5, 6} : /\ Len(s) > k
                                              /\ timed(k)
                                              /\ s[Len(s) - k + 1] \in {"+", "-"}
                                              /\ ZoneText(SubSeq(s, Len(s) - k + 1, Len(s))) # <<"?">>}}

\* to_datetime of a text cell at the clock reading now.  "now" and "today"
\* give the time of the run, text that is no date gives NaT and text in a
\* spelling followed exactly its date.  Any other text is read by the date
\* parser, whose rules the model does not follow: NaT or one of the dates
\* and times the text can mean.
TextOutcomes(s, now) ==
        \* the offset from UTC the text s gives in one of these spellings
    LET KnownZone(s_k) ==
            IF IsoDate(s_k) = <<>> /\ IsoDateTime(s_k) # <<>> THEN ZoneText(IsoTail(s_k)) ELSE <<>>
    IN
        \* A reading of the clock is [local, utc]: the fields of the local time and
        \* of the time in UTC at one instant, both in whole microseconds.
        \* to_datetime gives for the text "today" the local time of the run, and for
        \* the text "now" the local time (from pandas 2.0) or the time in UTC
        \* (before).
    LET NowOutcomes(s_n, now_n) ==
            IF s_n = <<"t", "o", "d", "a", "y">> THEN Ranged(now_n.local) ELSE Ranged(now_n.local) \cup Ranged(now_n.utc)
    IN
    IF s \in {<<"n", "o", "w">>, <<"t", "o", "d", "a", "y">>} THEN NowOutcomes(s, now)
    ELSE IF IsNoDate(s) THEN {NaT}
    ELSE IF KnownDate(s) # <<>> THEN RangedTz(KnownDate(s), KnownZone(s))
    ELSE {NaT} \cup UNION {UNION {RangedTz(f, z[2]) : f \in DateCandidates(z[1], now)} :
                              z \in ZoneReadings(s)}

(* the column *)

\* a cell that array conversion skips when it looks for the first value:
\* a missing value, an empty text, a text that stands for a missing date
IsNullLike(c) ==
    IsNa(c) \/ (c.k = "str" /\ c.v \in {<<>>, <<"N", "a", "T">>, <<"n", "a", "t">>, <<"N", "A", "T">>, <<"n", "a", "n">>, <<"N", "a", "N">>, <<"N", "A", "N">>})

\* From pandas 2.0 on the format of the column is the one of its first
\* cell that is not skipped, when that is a text with a date, and a later
\* cell that is not in this format gives NaT.  Before, each cell is read by
\* itself.  "now" and "today" are read in every format and have none.
\* fmts[r] is the format of the text of the cell at r.
FormatMayFail(col, fmts, r) ==
    LET FirstNonNull ==
            IF \A n \in 1..Len(col) : IsNullLike(col[n]) THEN 0
            ELSE CHOOSE n \in 1..Len(col) : ~IsNullLike(col[n]) /\ \A q \in 1..(n - 1) : IsNullLike(col[q])
        f == FirstNonNull
    IN  /\ f # 0 /\ f < r
        /\ col[f].k = "str" /\ ~IsNoDate(col[f].v) /\ col[f].v \notin {<<"n", "o", "w">>, <<"t", "o", "d", "a", "y">>}
        /\ col[r].k \in {"int", "float"} \/ (col[r].k = "str" /\ col[r].v \notin {<<"n", "o", "w">>, <<"t", "o", "d", "a", "y">>})
        /\ ~(col[r].k = "str" /\ fmts[r] # <<>> /\ fmts[r] = fmts[f])

\* The cells to_datetime(errors="coerce") can make of the cell at r of the
\* column col, read by itself; texts[r] is what the text of the cell gives.
\* A missing value gives NaT and a datetime stays.  A number counts
\* nanoseconds from 1970-01-01; where the column has a format it is read as
\* text, which can be a date when it is a whole number of 4, 6, 8, 12 or 14
\* digits.  A bool or a time is no date (NaT, where it does not raise).
CellOutcomes(col, r, texts, fmts) ==
    LET c == col[r]
    IN  CASE IsNa(c)                     -> {NaT}
          [] c.k = "datetime"            -> RangedTz(FieldsOf(c.v), ZoneOf(c.v))
          [] c.k = "str"                 -> texts[r]
          [] c.k \in {"int", "float"}    -> NumberOutcomes(c)
                                                \cup (IF /\ FormatMayFail(col, fmts, r)
                                                         /\ IsNumeral(PyStr(c))
                                                         /\ Len(PyStr(c)) \in {4, 6, 8, 12, 14}
                                                      THEN texts[r] ELSE {})
          [] c.k \in {"bool", "time"}    -> {NaT}

\* For each cell of col the cells to_datetime(errors="coerce") can make of
\* it, and Raised where the conversion of the column can raise.  A cell that
\* is not in the format of the column gives NaT, and so can a cell of a
\* column that mixes time zones.  The conversion can raise, by pandas
\* version: on a bool or a time (TypeError), and on Timestamps with and
\* without time zone or with different offsets in one column (ValueError).
DateOutcomesIn(col, fmts, texts) ==
    LET cells == [r \in 1..Len(col) |-> CellOutcomes(col, r, texts, fmts)]
        \* the offsets from UTC the cells of col can get, the empty string
        \* for a Timestamp without time zone
        ColumnZones ==
            {ZoneOf(c.v) : c \in {x \in UNION {cells[r] : r \in 1..Len(col)} : x.k = "datetime"}}
        ColumnMayRaise ==
            \/ \E r \in 1..Len(col) : col[r].k \in {"bool", "time"}
            \/ Cardinality(ColumnZones) > 1
    IN  [r \in 1..Len(col) |->
            cells[r]
                \cup (IF FormatMayFail(col, fmts, r) \/ Cardinality(ColumnZones) > 1 THEN {NaT} ELSE {})
                \cup (IF ColumnMayRaise THEN {Raised} ELSE {})]

\* The outcomes of line 66 for each cell of the column col; ticks[r] is the
\* reading of the clock when the cell at r is converted.  A text is read
\* as it is and a number, where it is read as text, as str() prints it.
DateOutcomes(col, ticks) ==
    DateOutcomesIn(col,
                   [r \in 1..Len(col) |-> IF col[r].k = "str" THEN FormatOf(col[r].v) ELSE <<>>],
                   [r \in 1..Len(col) |->
                       IF col[r].k \in {"str", "int", "float"}
                       THEN TextOutcomes(IF col[r].k = "str" THEN col[r].v ELSE PyStr(col[r]), ticks[r])
                       ELSE {}])

\* date_col of line 64, the empty string standing for None
DateCol(df) == FirstColWith(df, <<"d", "a", "t", "e">>, <<>>)

\* the column at position j, top down
ColumnSeq(df, j) == [r \in 1..Len(df.rows) |-> df.rows[r][j]]

\* the frames line 66 can make of df, given the outcomes outs of the cells
\* of column j: column j holds an outcome for each of its cells
WithDates(df, j, outs) ==
    {[cols |-> df.cols,
      rows |-> [r \in 1..Len(df.rows) |->
                  [i \in 1..Len(df.cols) |-> IF i = j THEN conv[r] ELSE df.rows[r][i]]]] :
        conv \in {f \in [1..Len(df.rows) -> UNION {outs[r] : r \in 1..Len(df.rows)}] :
                     \A r \in 1..Len(df.rows) : f[r] \in outs[r] /\ f[r] # Raised}}

\* the column lines 64-66 convert, top down; empty without a date column
DateColumn(df) == IF DateCol(df) = <<>> THEN <<>> ELSE ColumnSeq(df, ColPos(df, DateCol(df)))

\* lines 64-66 on the roster with trimmed headers: the frames they can
\* give, outs the outcomes of the cells of the date column
DatedRosters(df, outs) ==
    IF DateCol(df) = <<>> THEN {df} ELSE WithDates(df, ColPos(df, DateCol(df)), outs)

\* Line 66 raises when the date label occurs twice (to_datetime of a frame
\* needs columns year, month, day) and can raise where the conversion of
\* the column can.
DateMayRaise(df, outs) ==
    /\ DateCol(df) # <<>>
    /\ \/ IsDuplicated(df, DateCol(df))
       \/ \E r \in 1..Len(df.rows) : Raised \in outs[r]
(***************************************************************************)
(* get_punch_times, lines 88-100                                           *)
(***************************************************************************)
\* the rows of df whose id cell equals emp, line 89
MatchingRows(df, emp, id_col) ==
    {r \in 1..Len(df.rows) : df.rows[r][ColPos(df, id_col)] = emp}

IsPunchCol(c) == Contains(Upper(c), <<"P", "U", "N", "C", "H">>)

\* Line 95 on the row taken: r[c] is a Series when the label c occurs more
\* than once, and the truth value of  True and pd.notna(<Series>)  raises
\* ValueError.  (With the id label duplicated line 89 masks the frame and
\* keeps every row.)
PunchTimesRaises(df, emp, id_col) ==
    /\ IF IsDuplicated(df, id_col) THEN df.rows # <<>>
       ELSE MatchingRows(df, emp, id_col) # {}
    /\ \E i \in 1..Len(df.cols) :
          IsPunchCol(df.cols[i]) /\ IsDuplicated(df, df.cols[i])

\* With the id label duplicated df[id_col] == emp is a frame and line 89
\* masks df by it: by pandas version the mask raises or blanks every cell
\* outside the id columns.
PunchTimesMayRaise(df, emp, id_col) ==
    IsDuplicated(df, id_col) \/ PunchTimesRaises(df, emp, id_col)

IsTime(t) == t # NoneTime

Before(a, b) == a < b

\* get_punch_times when it returns: the parsed punches of the first matching
\* row, ascending; none when the id label is duplicated (every punch cell
\* is then masked)
get_punch_times(df, emp, id_col) ==
    LET sub == MatchingRows(df, emp, id_col)
        r == df.rows[CHOOSE i \in sub : \A j \in sub : i <= j]
        parsed == [i \in 1..Len(df.cols) |->
                     IF IsPunchCol(df.cols[i]) /\ ~IsNa(r[i]) THEN to_time(r[i])
                     ELSE NoneTime]
    IN  IF IsDuplicated(df, id_col) \/ sub = {} THEN <<>>
        ELSE SortSeq(SelectSeq(parsed, IsTime), Before)

(***************************************************************************)
(* compare_files: the classification of one row, lines 102-106, 121-172    *)
(***************************************************************************)
in_start == 6 * 3600 + 45 * 60

in_end == 7 * 3600 + 30 * 60

out_start == 15 * 3600 + 15 * 60

out_end == 15 * 3600 + 20 * 60

\* lines 125-134, Match requiring a punch in both sources
FullNightStatusBoth(punches_day1, punches_day2) ==
    IF punches_day1 # <<>> /\ punches_day2 # <<>> THEN "Match"
    ELSE IF punches_day2 # <<>> THEN "Single Out Punch"
    ELSE "No Punch"

\* lines 125-134
FullNightStatus(punches_day1, punches_day2) ==
    LET p1_day1 == IF punches_day1 # <<>> THEN punches_day1[1] ELSE NoneTime
        p1_day2 == IF punches_day2 # <<>> THEN punches_day2[1] ELSE NoneTime
    IN  IF IsTime(p1_day1) /\ IsTime(p1_day2) THEN "Match"
        ELSE IF IsTime(p1_day1) /\ ~IsTime(p1_day2) THEN "Match"
        ELSE IF ~IsTime(p1_day1) /\ IsTime(p1_day2) THEN "Single Out Punch"
        ELSE "No Punch"

\* lines 138-152 with the upper bounds of both windows exclusive
DayStatusExclusive(punches_day1) ==
    IF Len(punches_day1) < 2 THEN "No Punch"
    ELSE LET in_time == punches_day1[1]
             out_time == punches_day1[Len(punches_day1)]
         IN  IF ~(in_start <= in_time /\ in_time < in_end) THEN "No Punch"
             ELSE IF out_time < out_start THEN "Early"
             ELSE IF out_start <= out_time /\ out_time < out_end THEN "Match"
             ELSE "No Punch"

\* lines 138-152
DayStatus(punches_day1) ==
    IF Len(punches_day1) < 2 THEN "No Punch"
    ELSE LET in_time == punches_day1[1]
             out_time == punches_day1[Len(punches_day1)]
         IN  IF ~(in_start <= in_time /\ in_time <= in_end) THEN "No Punch"
             ELSE IF out_time < out_start THEN "Early"
             ELSE IF out_start <= out_time /\ out_time <= out_end THEN "Match"
             ELSE "No Punch"

\* diff_mins, line 157, in seconds: 60 * diff_mins(a, b).  Both arguments
\* are datetimes, which are always true, so the 9999 branch is never taken.
diff_mins_x60(a, b) ==
    IF IsTime(a) /\ IsTime(b) THEN (IF b >= a THEN b - a ELSE a - b) ELSE 9999 * 60

\* lines 156-172 comparing the first punch with the last one
OtherStatusLast(punches_day1) ==
    LET n == Len(punches_day1)
    IN  IF n = 0 THEN "No Punch"
        ELSE IF n = 1 THEN "Single In Punch"
        ELSE IF diff_mins_x60(punches_day1[1], punches_day1[n]) <= 10 * 60
             THEN "Single In Punch" ELSE "Match"

\* lines 156-172
OtherStatus(punches_day1) ==
    LET n == Len(punches_day1)
    IN  IF n = 0 THEN "No Punch"
        ELSE IF n >= 4 THEN
            (IF diff_mins_x60(punches_day1[1], punches_day1[4]) <= 10 * 60
             THEN "Single In Punch" ELSE "Match")
        ELSE IF n = 3 THEN
            (IF diff_mins_x60(punches_day1[1], punches_day1[3]) <= 10 * 60
             THEN "Single In Punch" ELSE "Match")
        ELSE IF n = 2 THEN
            (IF diff_mins_x60(punches_day1[1], punches_day1[2]) <= 10 * 60
             THEN "Single In Punch" ELSE "Match")
        ELSE IF n = 1 THEN "Single In Punch"
        ELSE "Mismatch"

\* lines 123-172 with the day/morning test made before the full-night test
ShiftStatusDayFirst(shift, punches_day1, punches_day2) ==
    IF Contains(shift, <<"d", "a", "y">>) \/ Contains(shift, <<"m", "o", "r", "n", "i", "n", "g">>)
    THEN DayStatus(punches_day1)
    ELSE IF Contains(shift, <<"f", "u", "l", "l">>) \/ Contains(shift, <<"f", "n">>)
    THEN FullNightStatus(punches_day1, punches_day2)
    ELSE OtherStatus(punches_day1)

\* lines 123-172: the branch on the lower-cased shift label
ShiftStatus(shift, punches_day1, punches_day2) ==
    IF Contains(shift, <<"f", "u", "l", "l">>) \/ Contains(shift, <<"f", "n">>)
    THEN FullNightStatus(punches_day1, punches_day2)
    ELSE IF Contains(shift, <<"d", "a", "y">>) \/ Contains(shift, <<"m", "o", "r", "n", "i", "n", "g">>)
    THEN DayStatus(punches_day1)
    ELSE OtherStatus(punches_day1)

(***************************************************************************)
(* compare_files: the loop over the roster, lines 108-176                  *)
(***************************************************************************)
\* emp = row[m_emp], line 113
RowEmp(df, col, i) == df.rows[i][ColPos(df, col)]

\* a string as the Series formatter prints it: tab, carriage return and
\* line feed escaped
RECURSIVE Escaped(_)
Escaped(s) ==
    IF s = <<>> THEN <<>>
    ELSE (CASE Head(s) = "\t" -> <<"\\", "t">>
            [] Head(s) = "\r" -> <<"\\", "r">>
            [] Head(s) = "\n" -> <<"\\", "n">>
            [] OTHER -> <<Head(s)>>) \o Escaped(Tail(s))

\* a cell as an object Series prints it
ReprCell(c) ==
    CASE c.k = "str" -> Escaped(c.v)
      [] c.k = "nan" -> <<"N", "a", "N">>
      [] OTHER -> PyStr(c)

\* the lines  label, four blanks, value  of the cells at the positions
\* from j on that carry the label col, the values flushed right to width w
RECURSIVE SeriesLines(_, _, _, _, _)
SeriesLines(df, col, i, j, w) ==
    LET Blanks(n) == [i_b \in 1..n |-> " "]
    IN
    IF j > Len(df.cols) THEN <<>>
    ELSE (IF df.cols[j] = col
          THEN col \o Blanks(4 + w - Len(ReprCell(df.rows[i][j]))) \o ReprCell(df.rows[i][j]) \o <<"\n">>
          ELSE <<>>) \o SeriesLines(df, col, i, j + 1, w)

\* shift = str(row.get(shift_col, "")).strip().lower(), line 114
RowShift(df, col, i) ==
        \* str() of the Series row.get returns when the label col occurs more than
        \* once: one line per cell and the footer with the row's index label
        \* (cells of at most 50 characters, which print in full)
    LET SeriesStr(df_s, col_s, i_s) ==
            LET Max(S) == CHOOSE n \in S : \A m \in S : n >= m
            IN
            SeriesLines(df_s, col_s, i_s, 1,
                        Max({Len(ReprCell(df_s.rows[i_s][j])) : j \in ColPositions(df_s, col_s)}))
                \o <<"N", "a", "m", "e", ":", " ">> \o NatStr(i_s - 1) \o <<",", " ", "d", "t", "y", "p", "e", ":", " ", "o", "b", "j", "e", "c", "t">>
    IN
    IF ~HasCol(df, col) THEN <<>>
    ELSE IF IsDuplicated(df, col) THEN Lower(Strip(SeriesStr(df, col, i)))
    ELSE Lower(Strip(PyStr(df.rows[i][ColPos(df, col)])))

\* line 115 with the pre-check left out
InBio1IdsAlways(emp, ids) == TRUE

\* emp in all_bio1_ids, line 115
InBio1Ids(emp, ids) == emp \in ids

\* a Status of the list statuses as a cell of the frame
StatusCell(s) == [k |-> "status", v |-> <<s>>]

\* manual_df["Status"] = statuses, line 176: the list overwrites the
\* column labelled Status, and is appended as a new column when there is
\* none
WithStatus(df, sts) ==
    IF HasCol(df, <<"S", "t", "a", "t", "u", "s">>)
    THEN [cols |-> df.cols,
          rows |-> [r \in 1..Len(df.rows) |->
                      [i \in 1..Len(df.cols) |->
                         IF df.cols[i] = <<"S", "t", "a", "t", "u", "s">> THEN StatusCell(sts[r])
                         ELSE df.rows[r][i]]]]
    ELSE [cols |-> Append(df.cols, <<"S", "t", "a", "t", "u", "s">>),
          rows |-> [r \in 1..Len(df.rows) |-> Append(df.rows[r], StatusCell(sts[r]))]]

EmptyTable == [cols |-> <<>>, rows |-> <<>>]

\* the Status the loop body computes for roster row i when it raises
\* nothing, lines 113-172
RowStatus(i) ==
    LET emp == RowEmp(manual_df, m_emp, i)
        shift == RowShift(manual_df, shift_col, i)
    IN  IF ~InBio1Ids(emp, all_bio1_ids) THEN "No Punch"
        ELSE ShiftStatus(shift, get_punch_times(bio1, emp, b_emp1),
                                get_punch_times(bio2, emp, b_emp2))

\* The loop body raises on roster row i: at line 115 when the roster's id
\* label is duplicated (row[m_emp] is a Series, which cannot be hashed), at
\* lines 119-120 in get_punch_times
RowRaises(i) ==
    \/ IsDuplicated(manual_df, m_emp)
    \/ LET emp == RowEmp(manual_df, m_emp, i)
       IN  /\ InBio1Ids(emp, all_bio1_ids)
           /\ \/ PunchTimesRaises(bio1, emp, b_emp1)
              \/ PunchTimesRaises(bio2, emp, b_emp2)

\* the loop body can raise on roster row i, by pandas version
RowMayRaise(i) ==
    \/ RowRaises(i)
    \/ LET emp == RowEmp(manual_df, m_emp, i)
       IN  /\ InBio1Ids(emp, all_bio1_ids)
           /\ \/ PunchTimesMayRaise(bio1, emp, b_emp1)
              \/ PunchTimesMayRaise(bio2, emp, b_emp2)

\* the roster with trimmed headers, line 62
TrimmedRoster == StripColumns(att_in)

\* m_emp of line 77
RosterIdCol == FirstColWith(TrimmedRoster, <<"e", "m", "p", " ", "i", "d">>, <<"E", "M", "P", " ", "I", "D">>)

\* Loading raises: KeyError at line 80 when no roster header contains
\* "emp id" and none is "EMP ID", ValueError at line 66 when the date
\* label occurs twice (to_datetime of a frame needs columns year, month,
\* day), IndexError in find_emp_col for a biometric table without columns.
LoadRaises ==
    \/ ~HasCol(TrimmedRoster, RosterIdCol)
    \/ DateCol(TrimmedRoster) # <<>> /\ IsDuplicated(TrimmedRoster, DateCol(TrimmedRoster))
    \/ bio1_in.cols = <<>>
    \/ bio2_in.cols = <<>>

\* The readings of the clock in the checked runs: a morning, and the first
\* minutes of a year in which UTC is still in the year before; local time
\* is five and a half hours ahead of UTC.
ClockReadings ==
    {[local |-> <<2026, 10, 31, 9, 30, 15, 123456000>>, utc |-> <<2026, 10, 31, 4, 0, 15, 123456000>>],
     [local |-> <<2027, 1, 1, 0, 10, 0, 0>>, utc |-> <<2026, 12, 31, 18, 40, 0, 0>>]}

\* the readings of the clock during the conversion of n cells, one after
\* the other
Ticks(n) ==
    {t \in [1..n -> ClockReadings] : \A i, j \in 1..n : i < j => LexLeq(t[i].utc, t[j].utc)}

\* Lines 59-110 given the outcomes outs of line 66 for the cells of the
\* date column.  An exception leaves compare_files.  Loading can raise, by
\* pandas version: also at line 66 on a bool or a time or on a column that
\* mixes time zones, and at lines 80-82 on an id label that occurs twice
\* (df[label] is then a frame, and DataFrame.map exists from pandas 2.1
\* only).
LoadFrom(outs) ==
    \/ /\ \/ LoadRaises
          \/ DateMayRaise(TrimmedRoster, outs)
          \/ IsDuplicated(TrimmedRoster, RosterIdCol)
          \/ IsDuplicated(LoadColumns(bio1_in), find_emp_col(LoadColumns(bio1_in)))
          \/ IsDuplicated(LoadColumns(bio2_in), find_emp_col(LoadColumns(bio2_in)))
       /\ pc' = "error"
       /\ UNCHANGED <<manual_df, m_emp, b_emp1, b_emp2, bio1, bio2,
                      shift_col, all_bio1_ids>>
    \/ /\ ~LoadRaises
       /\ \E dated \in DatedRosters(TrimmedRoster, outs) :
             manual_df' = NormaliseIds(dated, RosterIdCol)
       /\ m_emp' = RosterIdCol
       /\ b_emp1' = find_emp_col(LoadColumns(bio1_in))
       /\ b_emp2' = find_emp_col(LoadColumns(bio2_in))
       /\ bio1' = LoadBio(bio1_in)
       /\ bio2' = LoadBio(bio2_in)
       /\ shift_col' = FirstColWith(TrimmedRoster, <<"s", "h", "i", "f", "t">>, <<"S", "H", "I", "F", "T">>)
       /\ all_bio1_ids' = IdSet(bio1', b_emp1')
       /\ pc' = "loop"

\* Lines 59-110.  Line 66 reads the clock once for every cell of the date
\* column.
Load ==
    /\ pc = "start"
    /\ \E ticks \in Ticks(Len(att_in.rows)) :
          LoadFrom(DateOutcomes(DateColumn(TrimmedRoster), ticks))
    /\ UNCHANGED <<att_in, bio1_in, bio2_in, statuses, idx, x_in, x_out>>

\* the loop body with the append before  continue  (line 116) forgotten
ProcessRowNoAppend ==
    /\ pc = "loop"
    /\ idx < Len(manual_df.rows)
    /\ \/ /\ RowMayRaise(idx + 1)
          /\ pc' = "error"
          /\ UNCHANGED <<statuses, idx>>
       \/ /\ ~RowRaises(idx + 1)
          /\ statuses' = IF InBio1Ids(RowEmp(manual_df, m_emp, idx + 1), all_bio1_ids)
                         THEN Append(statuses, RowStatus(idx + 1)) ELSE statuses
          /\ idx' = idx + 1
          /\ pc' = pc
    /\ UNCHANGED <<att_in, bio1_in, bio2_in, manual_df, bio1, bio2, m_emp, b_emp1,
                   b_emp2, shift_col, all_bio1_ids, x_in, x_out>>

\* One iteration of the loop of line 112: lines 113-174
ProcessRow ==
    /\ pc = "loop"
    /\ idx < Len(manual_df.rows)
    /\ \/ /\ RowMayRaise(idx + 1)
          /\ pc' = "error"
          /\ UNCHANGED <<statuses, idx>>
       \/ /\ ~RowRaises(idx + 1)
          /\ statuses' = Append(statuses, RowStatus(idx + 1))
          /\ idx' = idx + 1
          /\ pc' = pc
    /\ UNCHANGED <<att_in, bio1_in, bio2_in, manual_df, bio1, bio2, m_emp, b_emp1,
                   b_emp2, shift_col, all_bio1_ids, x_in, x_out>>

\* The loop is exhausted: line 176
Finish ==
    /\ pc = "loop"
    /\ idx = Len(manual_df.rows)
    /\ manual_df' = WithStatus(manual_df, statuses)
    /\ pc' = "done"
    /\ UNCHANGED <<att_in, bio1_in, bio2_in, bio1, bio2, m_emp, b_emp1, b_emp2,
                   shift_col, all_bio1_ids, statuses, idx, x_in, x_out>>

Next == Load \/ ProcessRow \/ Finish

\* a call compare_files(att, b1, b2), before its first line
Start(att, b1, b2) ==
    /\ pc = "start"
    /\ att_in = att
    /\ bio1_in = b1
    /\ bio2_in = b2
    /\ manual_df = EmptyTable
    /\ bio1 = EmptyTable
    /\ bio2 = EmptyTable
    /\ m_emp = <<>>
    /\ b_emp1 = <<>>
    /\ b_emp2 = <<>>
    /\ shift_col = <<>>
    /\ all_bio1_ids = {}
    /\ statuses = <<>>
    /\ idx = 0
    /\ x_in = NaN
    /\ x_out = <<>>

(***************************************************************************)
(* The inputs of the checked calls                                         *)
(***************************************************************************)
MaxRoster == 2

MaxBioRows == 2

NumPunchColsDay == 3

NumPunchColsOther == 5

NumHeaderCols == 3

MaxLen == 4

Table(cols, rows) == [cols |-> cols, rows |-> rows]

SeqsOfLen(S, lo, hi) == UNION {[1..n -> S] : n \in lo..hi}

Txt(S) == {StrCell(s) : s \in S}

\* "Punch1", "Punch2", ...
PunchHeader(i) == <<"P", "u", "n", "c", "h">> \o <<DigitChars[i + 1]>>

RosterCols == <<<<"E", "M", "P", " ", "I", "D">>, <<"S", "H", "I", "F", "T">>>>

BioCols(n) == <<<<"E", "m", "p", " ", "C", "o", "d", "e">>>> \o [i \in 1..n |-> PunchHeader(i)]

Bio1RowChoices ==
    { <<StrCell(<<"e", "7">>), StrCell(<<"2", "2", ":", "0", "0">>)>>, <<StrCell(<<"e", "7">>), StrCell(<<"-", "\n">>)>>,
      <<StrCell(<<" ", "\t">>), StrCell(<<"2", "2", ":", "0", "0">>)>> }

\* Rosters of up to MaxRoster rows against a Source 1 of up to MaxBioRows
\* rows: keys present in and absent from Source 1, the empty key on both
\* sides, two Source 1 rows with one key.
InitRoster ==
    \E rows \in SeqsOfLen(Txt({<<"E", "-", "7">>, <<"-">>}) \X Txt({<<"F", "u", "l", "l", " ", "N", "i", "g", "h", "t">>, <<"H", "F">>}), 0, MaxRoster),
       rows1 \in SeqsOfLen(Bio1RowChoices, 1, MaxBioRows),
       cell2 \in Txt({<<"-">>, <<"0", "6", ":", "0", "0">>}) :
        Start(Table(RosterCols, rows), Table(BioCols(1), rows1),
              Table(BioCols(1), << <<StrCell(<<"E", "7">>), cell2>> >>))

ShiftLabels ==
    Txt({<<"F", "u", "l", "l", " ", "N", "i", "g", "h", "t">>, <<"F", "N">>, <<"F", "u", "l", "l", " ", "D", "a", "y">>, <<"H", "a", "l", "f", " ", "D", "a", "y">>, <<"\t">> \o <<"D", "a", "y", " ", "S", "h", "i", "f", "t">> \o <<"\n">>,
         <<"M", "o", "r", "n", "i", "n", "g">>, <<"H", "F">>, <<>>, <<"U+2003">> \o <<"D", "a", "y", " ">> \o <<"U+212A">>}) \cup {NaN}

ShiftRosterCols ==
    {RosterCols, <<<<"\t">> \o <<"E", "m", "p", " ", "I", "d", " ">>, <<"S", "h", "i", "f", "t", " ", "N", "a", "m", "e">> \o <<"\n">>>>, <<<<"E", "M", "P", " ", "I", "D">>, <<"R", "e", "m", "a", "r", "k", "s">>>>,
     <<<<"N", "a", "m", "e">>, <<"S", "H", "I", "F", "T">>>>, <<<<"E", "M", "P", " ", "I", "D">> \o <<"U+2003">>, <<"S", "H">> \o <<"U+0130">> \o <<"F", "T">>>>}

\* One roster row under every shift label, the key present in Source 1;
\* the punches as text and as times of day, the ids as text and as numbers
InitShift ==
    \E cols \in ShiftRosterCols, shift \in ShiftLabels,
       cells1 \in [1..2 -> Txt({<<"-">>, <<"0", "7", ":", "0", "0">>, <<"1", "5", ":", "1", "8">>}) \cup {TimeCell(<<"0", "9", "0", "0", "0", "0">>)}],
       row2 \in {IntCell(<<"7">>), FloatCell(<<"8">>)} \X Txt({<<" ", "\n">>, <<"0", "6", ":", "0", "0", " ", "-", " ", "O">>}) :
        Start(Table(cols, << <<StrCell(<<"\t">> \o <<"7", ".", "0">> \o <<"\n">>), shift>> >>),
              Table(BioCols(2), << <<FloatCell(<<"7">>)>> \o cells1 >>),
              Table(BioCols(1), <<row2>>))

DayCells ==
    Txt({<<"-">>, <<"0", "6", ":", "4", "4", ":", "5", "9">>, <<"0", "6", ":", "4", "5">>, <<"0", "7", ":", "3", "0", ":", "0", "0">>, <<"0", "7", ":", "3", "0", ":", "0", "1">>,
         <<"1", "5", ":", "1", "4", ":", "5", "9">>, <<"1", "5", ":", "1", "5">>, <<"1", "5", ":", "2", "0", ":", "0", "0">>, <<"1", "5", ":", "2", "0", ":", "0", "1">>})

\* One day-shift row, the punches at the borders of both windows
InitDay ==
    \E cells1 \in [1..NumPunchColsDay -> DayCells],
       shift \in Txt({<<"D", "a", "y">>}),
       cell2 \in Txt({<<"-">>, <<"0", "6", ":", "0", "0">>}) :
        Start(Table(RosterCols, << <<StrCell(<<"E", "7">>), shift>> >>),
              Table(BioCols(NumPunchColsDay), << <<StrCell(<<"E", "7">>)>> \o cells1 >>),
              Table(BioCols(1), << <<StrCell(<<"E", "7">>), cell2>> >>))

OtherCells == Txt({<<"-">>, <<"0", "9", ":", "0", "0">>, <<"0", "9", ":", "1", "0">>, <<"0", "9", ":", "1", "0", ":", "0", "1">>})

\* One row of another shift, the punches around the 10-minute threshold
InitOther ==
    \E cells1 \in [1..NumPunchColsOther -> OtherCells],
       shift \in Txt({<<"H", "F">>}),
       cell2 \in Txt({<<"-">>, <<"0", "6", ":", "0", "0">>}) :
        Start(Table(RosterCols, << <<StrCell(<<"E", "7">>), shift>> >>),
              Table(BioCols(NumPunchColsOther), << <<StrCell(<<"E", "7">>)>> \o cells1 >>),
              Table(BioCols(1), << <<StrCell(<<"E", "7">>), cell2>> >>))

HeaderChoices == {<<"E", "m", "p", " ", "C", "o", "d", "e">>, <<"C", "o", "d", "e">>, <<"P", "u", "n", "c", "h", "1">>, <<"P", "u", "n", "c", "h", "1", " ">>, <<"P", "u", "n", "c", "h", "1", ".", "1">>}

\* Source 1 under every header row of distinct labels over HeaderChoices
\* (read_excel returns no label twice), labels that differ by surrounding
\* whitespace only included
InitHeaders ==
    \E cols \in {h \in [1..NumHeaderCols -> HeaderChoices] :
                    \A i, j \in 1..NumHeaderCols : i # j => h[i] # h[j]},
       cells \in [1..NumHeaderCols -> Txt({<<"E", "7">>, <<"0", "7", ":", "0", "0">>})] :
        Start(Table(RosterCols, << <<StrCell(<<"E", "7">>), StrCell(<<"H", "F">>)>> >>),
              Table(cols, <<cells>>),
              Table(BioCols(1), << <<StrCell(<<"E", "7">>), StrCell(<<"0", "6", ":", "0", "0">>)>> >>))

\* roster headers with a date column, with a shift header that contains
\* "date", with a Status column, and with a label that occurs twice after
\* the trim
WideRosterCols ==
    {<<<<"E", "M", "P", " ", "I", "D">>, <<"S", "H", "I", "F", "T">>, <<"D", "a", "t", "e">>>>, <<<<"E", "M", "P", " ", "I", "D">>, <<"U", "p", "d", "a", "t", "e", "d", " ", "S", "h", "i", "f", "t">>, <<"D", "a", "t", "e">>>>,
     <<<<"E", "M", "P", " ", "I", "D">>, <<"S", "t", "a", "t", "u", "s">>, <<"S", "H", "I", "F", "T">>>>, <<<<"E", "M", "P", " ", "I", "D">>, <<"S", "h", "i", "f", "t", " ">>, <<"S", "h", "i", "f", "t">>>>,
     <<<<"E", "M", "P", " ", "I", "D">>, <<" ", "E", "M", "P", " ", "I", "D">>, <<"S", "H", "I", "F", "T">>>>, <<<<"E", "M", "P", " ", "I", "D">>, <<"D", "a", "t", "e">>, <<"D", "a", "t", "e", " ">>>>}

\* shift labels, dates in several spellings, the time of the run, a time
\* with a fraction of the second, and cells that are no text
WideCells ==
    Txt({<<"F", "u", "l", "l", " ", "N", "i", "g", "h", "t">>, <<"D", "a", "y">>, <<"2", "0", "2", "4", "-", "0", "1", "-", "0", "5">>, <<"5", " ", "J", "a", "n", " ", "2", "0", "2", "3">>, <<"5", "/", "1", "/", "2", "3">>, <<"n", "o", "w">>,
         <<"2", "0", "2", "4", "-", "0", "1", "-", "0", "5", " ", "0", "7", ":", "1", "6", ":", "0", "0", ".", "5">>})
        \cup {NaN, BoolCell(TRUE), IntCell(<<"4", "5", "0", "0", "0">>), DatetimeCell(<<"2", "0", "2", "4", "0", "1", "0", "5", "0", "0", "0", "0", "0", "0">>)}

\* two rows of a date column: formats that agree and that differ, the
\* time of the run read twice, times with and without time zone
DatePairs ==
    {<<<<"2", "0", "2", "4", "-", "0", "1", "-", "0", "5">>, <<"1", "6", "9", "0", "-", "0", "1", "-", "0", "1">>>>, <<<<"2", "0", "2", "4", "-", "0", "1", "-", "0", "5">>, <<"5", " ", "J", "a", "n", " ", "2", "0", "2", "3">>>>,
     <<<<"5", " ", "J", "a", "n", " ", "2", "0", "2", "3">>, <<"n", "o", " ", "d", "a", "t", "e">>>>, <<<<"1", "3", "/", "0", "1", "/", "2", "0", "2", "3">>, <<"0", "1", "/", "0", "2", "/", "2", "0", "2", "3">>>>,
     <<<<"n", "o", "w">>, <<"t", "o", "d", "a", "y">>>>, <<<<"2", "0", "2", "4", "-", "0", "1", "-", "0", "5", "T", "0", "7", ":", "1", "6", ":", "0", "0", "Z">>, <<"2", "0", "2", "4", "-", "0", "1", "-", "0", "6", " ", "0", "7", ":", "1", "6", ":", "0", "0", "+", "0", "5", ":", "3", "0">>>>,
     <<<<"2", "0", "2", "4", "-", "0", "1", "-", "0", "5", "T", "0", "7", ":", "1", "6", ":", "0", "0", "Z">>, <<"2", "0", "2", "4", "-", "0", "1", "-", "0", "5">>>>, <<<<"1", "0", ":", "1", "5">>, <<"M", "o", "n", "d", "a", "y", " ", "2", "0", "2", "3">>>>}

\* Rosters of three columns: at most one row over WideCells, or two rows
\* with a pair of dates in the third column; Source 2 also without any
\* column
InitWide ==
    \E cols \in WideRosterCols,
       rows \in SeqsOfLen({StrCell(<<"E", "7">>)} \X WideCells \X WideCells, 0, 1)
                   \cup {<< <<StrCell(<<"E", "7">>), StrCell(<<"D", "a", "y">>), StrCell(p[1])>>,
                             <<StrCell(<<"E", "8">>), StrCell(<<"H", "F">>), StrCell(p[2])>> >> : p \in DatePairs},
       cell1 \in Txt({<<"-">>, <<"0", "7", ":", "0", "0">>}),
       b2 \in {Table(BioCols(1), << <<StrCell(<<"E", "7">>), StrCell(<<"0", "6", ":", "0", "0">>)>> >>), Table(<<>>, <<>>)} :
        Start(Table(cols, rows), Table(BioCols(1), << <<StrCell(<<"E", "7">>), cell1>> >>), b2)

Init == InitRoster \/ InitShift \/ InitDay \/ InitOther \/ InitHeaders \/ InitWide

Spec == Init /\ [][Next]_vars

(***************************************************************************)
(* clean_id applied on its own: clean_id(x), then clean_id of the result   *)
(***************************************************************************)
IdAlphabet == {"a", "B", "1", "0", ".", "-", " ", "\n", "ß"}

\* the examples of the specification, the text of the missing values, and
\* ids with a dotless i, an em space and the ligature fi
IdExamples ==
    {<<"A", "-", "1", "2", "3", ".", "0">>, <<"a", "1", "2", "3">>, <<"n", "a", "n">>, <<"N", "o", "n", "e">>, <<"U+0131">> \o <<"d", "7">>, <<"7", ".", "0">> \o <<"U+2003">>,
     <<"U+FB01">> \o <<"1">>}

\* text over IdAlphabet, the examples, the missing values and the other
\* kinds of scalar
IdInputs ==
    Txt(SeqsOfLen(IdAlphabet, 0, MaxLen) \cup IdExamples)
        \cup {NaN, NaT, None, FloatCell(<<"1", "2", "3">>), FloatCell(<<"7">>), FloatCell(<<"1", "0", "0", "0", "0", "0", "0", "0", "0", "0", "0", "0", "0", "0", "0", "0", "0">>),
              FloatCell(<<"-", "0", ".", "5">>), IntCell(<<"4", "2">>), BoolCell(TRUE), TimeCell(<<"0", "7", "1", "6", "0", "0">>),
              DatetimeCell(<<"2", "0", "2", "4", "0", "1", "0", "5", "0", "0", "0", "0", "0", "0">>)}

InitClean ==
    /\ pc = "clean"
    /\ x_in \in IdInputs
    /\ x_out = <<>>
    /\ att_in = EmptyTable
    /\ bio1_in = EmptyTable
    /\ bio2_in = EmptyTable
    /\ manual_df = EmptyTable
    /\ bio1 = EmptyTable
    /\ bio2 = EmptyTable
    /\ m_emp = <<>>
    /\ b_emp1 = <<>>
    /\ b_emp2 = <<>>
    /\ shift_col = <<>>
    /\ all_bio1_ids = {}
    /\ statuses = <<>>
    /\ idx = 0

\* x_out collects clean_id(x_in) and clean_id(clean_id(x_in))
CleanIdCall ==
    /\ pc = "clean"
    /\ Len(x_out) < 2
    /\ x_out' = Append(x_out, clean_id(IF x_out = <<>> THEN x_in
                                       ELSE StrCell(x_out[Len(x_out)])))
    /\ UNCHANGED <<pc, att_in, bio1_in, bio2_in, manual_df, bio1, bio2, m_emp,
                   b_emp1, b_emp2, shift_col, all_bio1_ids, statuses, idx, x_in>>

NextClean == CleanIdCall

SpecClean == InitClean /\ [][NextClean]_vars

(***************************************************************************)
(* The claims                                                              *)
(***************************************************************************)
StatusLabels ==
    {"Match", "No Punch", "Early", "Single In Punch", "Single Out Punch", "Mismatch"}

\* the roster rows the loop has visited
Visited == 1..Len(statuses)

\* the normalized key of roster row i, as the loop reads it (line 113)
RosterKey(i) == RowEmp(manual_df, m_emp, i).v

\* Source 1 after the normalisation of its id column (line 81)
Bio1Normalised == NormaliseIds(LoadColumns(bio1_in), b_emp1)

\* the normalized key of row r of Source 1
Bio1Key(r) == RowEmp(Bio1Normalised, b_emp1, r).v

\* the normalized keys of Source 1's employee-id column
Bio1Keys == {Bio1Key(r) : r \in 1..Len(bio1_in.rows)}

\* roster row i is found in the id column of the loaded Source 1
InSource1(i) == StrCell(RosterKey(i)) \in IdSet(bio1, b_emp1)

\* the lower-cased shift label of roster row i, as the loop reads it
\* (line 114); empty without a shift column
Label(i) == RowShift(manual_df, shift_col, i)

\* the punches collected for roster row i from Source 1 and from Source 2
Punches1(i) == get_punch_times(bio1, StrCell(RosterKey(i)), b_emp1)

Punches2(i) == get_punch_times(bio2, StrCell(RosterKey(i)), b_emp2)

HMS(h, m, s) == 3600 * h + 60 * m + s

IsCatA(label) == Contains(label, <<"f", "u", "l", "l">>) \/ Contains(label, <<"f", "n">>)

IsCatB(label) ==
    (Contains(label, <<"d", "a", "y">>) \/ Contains(label, <<"m", "o", "r", "n", "i", "n", "g">>)) /\ ~IsCatA(label)

IsCatC(label) ==
    /\ ~Contains(label, <<"f", "u", "l", "l">>)
    /\ ~Contains(label, <<"f", "n">>)
    /\ ~Contains(label, <<"d", "a", "y">>)
    /\ ~Contains(label, <<"m", "o", "r", "n", "i", "n", "g">>)

\* Category A as the claim states it
ExpectedA(has1, has2) ==
    IF has1 THEN "Match" ELSE IF has2 THEN "Single Out Punch" ELSE "No Punch"

Earliest(p) == CHOOSE t \in {p[j] : j \in 1..Len(p)} : \A j \in 1..Len(p) : t <= p[j]

Latest(p) == CHOOSE t \in {p[j] : j \in 1..Len(p)} : \A j \in 1..Len(p) : t >= p[j]

\* Category B as the claim states it
ExpectedB(p) ==
    IF Len(p) < 2 THEN "No Punch"
    ELSE IF Earliest(p) < HMS(6, 45, 0) \/ Earliest(p) > HMS(7, 30, 0) THEN "No Punch"
    ELSE IF Latest(p) < HMS(15, 15, 0) THEN "Early"
    ELSE IF Latest(p) <= HMS(15, 20, 0) THEN "Match"
    ELSE "No Punch"

\* Category C as the claim states it
ExpectedC(p) ==
    LET n == Len(p)
        k == IF n = 2 THEN 1 ELSE IF n = 3 THEN 2 ELSE 3
        d == IF p[k + 1] >= p[1] THEN p[k + 1] - p[1] ELSE p[1] - p[k + 1]
    IN  IF n = 0 THEN "No Punch"
        ELSE IF n = 1 THEN "Single In Punch"
        ELSE IF d <= HMS(0, 10, 0) THEN "Single In Punch"
        ELSE "Match"

\* C1: a visited roster row whose normalized key occurs nowhere in the
\* employee-id column of Source 1 has Status "No Punch", for every shift
\* label and every content of Source 2.
C1_AbsentKeyNoPunch ==
    \A i \in Visited : RosterKey(i) \notin Bio1Keys => statuses[i] = "No Punch"

\* a full-night row absent from Source 1 whose key has a punch in Source 2
C1_Witness ==
    \E i \in Visited :
        /\ RosterKey(i) \notin Bio1Keys
        /\ IsCatA(Label(i))
        /\ Punches2(i) # <<>>
        /\ statuses[i] = "No Punch"

\* C2: for a visited row found in Source 1 whose label contains "full" or
\* "fn", the Status is decided by whether each source has a collected punch:
\* Match when Source 1 has one, Single Out Punch when only Source 2 has one,
\* No Punch when neither has.
C2_FullNight ==
    \A i \in Visited :
        InSource1(i) /\ IsCatA(Label(i)) =>
            statuses[i] = ExpectedA(Punches1(i) # <<>>, Punches2(i) # <<>>)

\* a full-night row with no Source 1 punch and a Source 2 punch
C2_Witness ==
    \E i \in Visited :
        /\ InSource1(i)
        /\ IsCatA(Label(i))
        /\ Punches1(i) = <<>>
        /\ Punches2(i) # <<>>
        /\ statuses[i] = "Single Out Punch"

\* C3: for a visited row found in Source 1 whose label contains "day" or
\* "morning" and neither "full" nor "fn", the Status follows from the
\* Source 1 punches alone: No Punch with fewer than two or with the earliest
\* outside [06:45:00, 07:30:00]; else Early when the latest is before
\* 15:15:00, Match when it is within [15:15:00, 15:20:00], No Punch after.
C3_DayMorning ==
    \A i \in Visited :
        InSource1(i) /\ IsCatB(Label(i)) => statuses[i] = ExpectedB(Punches1(i))

\* a day row that enters at 07:30:00 and leaves at 15:20:00, the last
\* second of both windows, with a punch in Source 2
C3_Witness ==
    \E i \in Visited :
        /\ InSource1(i)
        /\ IsCatB(Label(i))
        /\ Len(Punches1(i)) >= 2
        /\ Earliest(Punches1(i)) = HMS(7, 30, 0)
        /\ Latest(Punches1(i)) = HMS(15, 20, 0)
        /\ Punches2(i) # <<>>
        /\ statuses[i] = "Match"

\* C4: for a visited row found in Source 1 whose label contains none of
\* "full", "fn", "day", "morning", the Status follows from the ascending
\* Source 1 punches alone: No Punch for none, Single In Punch for one, and
\* for n >= 2 Single In Punch when punch[0] and punch[k] (k = 1, 2, 3 for
\* n = 2, 3, >= 4) are at most 10 minutes apart, Match otherwise.
C4_OtherShift ==
    \A i \in Visited :
        InSource1(i) /\ IsCatC(Label(i)) => statuses[i] = ExpectedC(Punches1(i))

\* five punches, the fourth exactly 10 minutes after the first and the
\* fifth later than that
C4_Witness ==
    \E i \in Visited :
        /\ InSource1(i)
        /\ IsCatC(Label(i))
        /\ Len(Punches1(i)) = 5
        /\ Punches1(i)[4] - Punches1(i)[1] = HMS(0, 10, 0)
        /\ Punches1(i)[5] - Punches1(i)[1] > HMS(0, 10, 0)
        /\ statuses[i] = "Single In Punch"

\* the Status the claims C1 to C4 give roster row i
ExpectedStatus(i) ==
    IF ~InSource1(i) THEN "No Punch"
    ELSE IF IsCatA(Label(i)) THEN ExpectedA(Punches1(i) # <<>>, Punches2(i) # <<>>)
    ELSE IF IsCatB(Label(i)) THEN ExpectedB(Punches1(i))
    ELSE ExpectedC(Punches1(i))

\* the positions of the Status column, of the id column and of the date
\* column in the output table
StatusPositions ==
    IF \E j \in DOMAIN att_in.cols : Strip(att_in.cols[j]) = <<"S", "t", "a", "t", "u", "s">>
    THEN {j \in DOMAIN att_in.cols : Strip(att_in.cols[j]) = <<"S", "t", "a", "t", "u", "s">>}
    ELSE {Len(att_in.cols) + 1}

IdPositions == {j \in DOMAIN att_in.cols : Strip(att_in.cols[j]) = m_emp}

DatePositions ==
    LET dates == {j \in DOMAIN att_in.cols : Contains(Lower(Strip(att_in.cols[j])), <<"d", "a", "t", "e">>)}
    IN  {j \in dates : \A n \in dates : j <= n}

\* The cell of the output table at row i and column j is the one of the
\* input roster: the same cell; in the id column a text of the characters
\* A-Z and 0-9 only; in the date column a Timestamp or NaT, NaT for a
\* missing date and for a text without a digit or a letter.
SameCell(i, j) ==
    LET raw == att_in.rows[i][j]
        out == manual_df.rows[i][j]
    IN  IF j \in IdPositions
        THEN out.k = "str" /\ \A n \in 1..Len(out.v) : IsUpperAlnum(out.v[n])
        ELSE IF j \in DatePositions
        THEN /\ out.k \in {"datetime", "nat"}
             /\ IsNa(raw) => out = NaT
             /\ (raw.k = "str" /\ \A n \in 1..Len(raw.v) : raw.v[n] \in {" ", "-", "/"}) => out = NaT
        ELSE out = raw

\* C5: the loop appends exactly one Status per visited row, in row order:
\* after k rows the status list has length k and its i-th entry is the
\* Status of the i-th roster row, one of the six labels; when the loop has
\* ended the output table has the rows of the input roster in their order,
\* each with its Status in the Status column.
C5_OneStatusPerRow ==
    /\ Len(statuses) = idx
    /\ idx <= Len(att_in.rows)
    /\ \A i \in Visited : statuses[i] \in StatusLabels /\ statuses[i] = ExpectedStatus(i)
    /\ pc = "done" =>
          /\ idx = Len(att_in.rows)
          /\ Len(manual_df.rows) = Len(att_in.rows)
          /\ \A i \in 1..Len(att_in.rows) :
                /\ DOMAIN manual_df.rows[i] = DOMAIN att_in.cols \cup StatusPositions
                /\ \A j \in StatusPositions : manual_df.rows[i][j].v = <<statuses[i]>>
                /\ \A j \in DOMAIN att_in.cols \ StatusPositions : SameCell(i, j)

\* a finished run over two rows that received different Statuses, one of
\* them on the pre-check path
C5_Witness ==
    /\ pc = "done"
    /\ Len(statuses) = 2
    /\ statuses[1] # statuses[2]
    /\ \E i \in Visited : ~InSource1(i)
    /\ \E i \in Visited : InSource1(i)

\* C6: a roster row whose normalized key equals the normalized key of a
\* Source 1 row passes the presence pre-check, and the Source 1 rows taken
\* for its employee are the rows with that key; for every key, the empty
\* key included.
C6_SameKeySameEmployee ==
    \A i \in Visited :
        LET r == clean_id(RowEmp(TrimmedRoster, m_emp, i))
            same == {n \in 1..Len(bio1_in.rows) :
                        clean_id(RowEmp(LoadColumns(bio1_in), b_emp1, n)) = r}
        IN  same # {} =>
               /\ InBio1Ids(RowEmp(manual_df, m_emp, i), all_bio1_ids)
               /\ MatchingRows(bio1, RowEmp(manual_df, m_emp, i), b_emp1) = same

Distinct(s) == \A i, j \in 1..Len(s) : i # j => s[i] # s[j]

\* C7: the headers of a loaded biometric table are pairwise distinct, also
\* for raw headers that differ only by surrounding whitespace.
C7_HeadersDistinct == Distinct(bio1.cols) /\ Distinct(bio2.cols)

\* the Status the rules of category c give roster row i
ExpectedIn(c, i) ==
    CASE c = "A" -> ExpectedA(Punches1(i) # <<>>, Punches2(i) # <<>>)
      [] c = "B" -> ExpectedB(Punches1(i))
      [] c = "C" -> ExpectedC(Punches1(i))

\* the label of roster row i has the tokens of category c
InCategory(c, i) ==
    CASE c = "A" -> IsCatA(Label(i))
      [] c = "B" -> IsCatB(Label(i))
      [] c = "C" -> IsCatC(Label(i))

\* C10: the category is chosen by precedence: the rules of Category A for a
\* label with "full" or "fn" (whatever else it contains), of Category B for
\* a label with "day" or "morning" and neither "full" nor "fn", of
\* Category C for a label with none of the four tokens, a missing or empty
\* label included.  For every visited row found in Source 1 there is
\* exactly one category that has the tokens of its label and whose rules
\* give its Status.
C10_Precedence ==
    \A i \in Visited :
        InSource1(i) =>
            Cardinality({c \in {"A", "B", "C"} :
                            InCategory(c, i) /\ statuses[i] = ExpectedIn(c, i)}) = 1

\* a "full day" row classified Match by Category A where the rules of
\* Category B and of Category C give another Status
C10_Witness ==
    \E i \in Visited :
        /\ InSource1(i)
        /\ Contains(Label(i), <<"f", "u", "l", "l">>)
        /\ Contains(Label(i), <<"d", "a", "y">>)
        /\ statuses[i] = "Match"
        /\ ExpectedB(Punches1(i)) # "Match"
        /\ ExpectedC(Punches1(i)) # "Match"

AllBlank(s) == \A i \in 1..Len(s) : IsSpace(s[i])

\* C8: clean_id maps a missing value, as it is and as stringified by
\* astype(str), and an empty or all-blank string to the empty string.
C8_MissingIsEmpty ==
    /\ Len(x_out) >= 1
    /\ \/ IsNa(x_in)
       \/ \E m \in {NaN, NaT, None} : x_in = AsTypeStr(m)
       \/ x_in.k = "str" /\ AllBlank(x_in.v)
    => x_out[1] = <<>>

\* C9: clean_id(clean_id(x)) = clean_id(x), the result has only the
\* characters A-Z and 0-9, and "A-123.0" and "a123" both give "A123".
C9_Idempotent ==
    /\ \A n \in 1..Len(x_out) : \A j \in 1..Len(x_out[n]) : IsUpperAlnum(x_out[n][j])
    /\ Len(x_out) = 2 => x_out[2] = x_out[1]
    /\ Len(x_out) >= 1 /\ x_in \in Txt({<<"A", "-", "1", "2", "3", ".", "0">>, <<"a", "1", "2", "3">>}) => x_out[1] = <<"A", "1", "2", "3">>

\* "A-123.0" normalized twice
C9_Witness ==
    /\ x_in = StrCell(<<"A", "-", "1", "2", "3", ".", "0">>)
    /\ Len(x_out) = 2
    /\ x_out[1] = <<"A", "1", "2", "3">>
    /\ x_out[2] = <<"A", "1", "2", "3">>

====
